---- MODULE Spec2Model ----
(***************************************************************************)
(* Ingestion state machine and knowledge-graph construction of Amber.      *)
(*                                                                         *)
(* Spec        : document registration (UploadDocumentUseCase.execute),    *)
(*               the processing job with task-layer retry, and the         *)
(*               worker-startup recovery sweep.                            *)
(* SpecProc    : GraphProcessor.process_chunks (semaphore of 5).           *)
(* SpecParse   : GraphExtractor._parse_result on one model output.         *)
(* SpecExtract : GraphExtractor.extract with its gleaning loop.            *)
(* SpecWrite   : GraphWriter.write_extraction_result.                      *)
(* SpecDelete  : DeleteDocumentUseCase.execute over the four stores.       *)
(* SpecSimilarity   : GraphEnricher.create_similarity_edges.               *)
(* SpecCoOccurrence : GraphEnricher.compute_co_occurrence.                 *)
(* SpecCommunity    : community staleness marking and orphan cleanup.      *)
(* SpecTicket       : TicketService.create_ticket and redeem_ticket.       *)
(* SpecLive         : Spec with a failing dispatch, worker crashes and     *)
(*                    the fairness the task queue gives.                   *)
(* SpecGraphLife    : compute_co_occurrence between document deletions.    *)
(* SpecRace         : DeleteDocumentUseCase.execute while process_chunks   *)
(*                    is working on the same document.                     *)
(***************************************************************************)
EXTENDS Integers, Sequences, FiniteSets, Bags, TLC

VARIABLES
    documents,      \* relational store: document id -> Document row
    storage,        \* object store: set of stored blob paths
    uploads,        \* one record per UploadDocumentUseCase.execute call
    jobs,           \* task queue: bag of the process_document jobs not finished
    sweeps,         \* number of worker-startup recovery sweeps run so far
    chunks,         \* process_chunks: len(chunk.content) of each chunk
    unit,           \* process_chunks: position of each _process_one coroutine
    sem,            \* process_chunks: free permits of asyncio.Semaphore(5)
    proc,           \* process_chunks: position of the call itself
    unit_calls,     \* process_chunks: calls each coroutine has made so far
    parse_in,       \* _parse_result: the model output handed to it
    parse_out,      \* _parse_result: what the call produced
    ex,             \* extract: the state of one GraphExtractor.extract call
    graph,          \* graph store: nodes and edges, by label and type
    rows,           \* relational store seen by deletion: document id -> row
    vectors,        \* vector index: set of (tenant, document, chunk) tags
    blobs,          \* object store seen by deletion: set of stored paths
    op,             \* the graph-side call in progress and its position
    communities,    \* graph store: community id -> members and is_stale
    lifecycle,      \* the CommunityLifecycleManager call made last
    redis,          \* Redis: ticket key -> stored value and seconds to live
    issued,         \* the tickets create_ticket has returned
    redeems         \* one record per TicketService.redeem_ticket call

ingestVars == <<documents, storage, uploads, jobs, sweeps>>
procVars == <<chunks, unit, sem, proc, unit_calls>>
parseVars == <<parse_in, parse_out>>
extractVars == <<ex>>
graphVars == <<graph, rows, vectors, blobs, op>>
communityVars == <<communities, lifecycle>>
ticketVars == <<redis, issued, redeems>>
otherThanIngest ==
    <<procVars, parseVars, extractVars, graphVars, communityVars, ticketVars>>
otherThanProc ==
    <<ingestVars, parseVars, extractVars, graphVars, communityVars, ticketVars>>
otherThanParse ==
    <<ingestVars, procVars, extractVars, graphVars, communityVars, ticketVars>>
otherThanExtract ==
    <<ingestVars, procVars, parseVars, graphVars, communityVars, ticketVars>>
otherThanGraph ==
    <<ingestVars, procVars, parseVars, extractVars, communityVars, ticketVars>>
otherThanCommunity ==
    <<ingestVars, procVars, parseVars, extractVars, graphVars, ticketVars>>
otherThanTicket ==
    <<ingestVars, procVars, parseVars, extractVars, graphVars, communityVars>>
vars == <<documents, storage, uploads, jobs, sweeps, chunks, unit, sem, proc,
          unit_calls, parse_in, parse_out, ex, graph, rows, vectors, blobs, op,
          communities, lifecycle, redis, issued, redeems>>

(***************************************************************************)
(* Bounds of the model.                                                    *)
(***************************************************************************)
MaxUploads == 2
MaxSweeps == 1
MaxJobs == 2
MaxChunks == 6
MaxOutputLen == 4
MaxGleaningSteps == 3
max_size_bytes == 1

Tenants == {"t1", "t2"}
Bytes == {0}

\* Every byte string of length 0 .. max_size_bytes + 1.
ByteStrings == UNION {[1..n -> Bytes] : n \in 0..(max_size_bytes + 1)}

(***************************************************************************)
(* Document state machine.                                                 *)
(***************************************************************************)
StatusChain == <<"INGESTED", "CLASSIFYING", "EXTRACTING", "CHUNKING",
                 "EMBEDDING", "GRAPH_SYNCING", "ENRICHING", "READY">>

DocumentStatus == {StatusChain[i] : i \in 1..Len(StatusChain)} \cup {"FAILED"}

Terminal == {"READY", "FAILED"}

StatusIndex(s) == CHOOSE i \in 1..Len(StatusChain) : StatusChain[i] = s

\* A state machine that jumps over CLASSIFYING.
NextStatus_skip(s) ==
    IF s = "INGESTED" THEN "EXTRACTING" ELSE StatusChain[StatusIndex(s) + 1]

\* The state a successful stage moves a document to.
NextStatus(s) == StatusChain[StatusIndex(s) + 1]

\* Retry ceiling of the task layer.
task_max_retries == 3

(***************************************************************************)
(* Registration.                                                           *)
(***************************************************************************)
RECURSIVE content_hash(_)
\* Digest of the raw bytes: distinct byte strings of the model get distinct
\* digests.
content_hash(b) ==
    IF b = <<>> THEN 1 ELSE 2 * content_hash(Tail(b)) + Head(b) + 1

NoDoc == 0

\* find_by_content_hash: ids of the committed rows of (tenant, hash).
find_by_content_hash(t, h) ==
    {d \in DOMAIN documents :
        documents[d].tenant_id = t /\ documents[d].content_hash = h}

\* Document ids are generated fresh for every new row.
NewDocumentId == Cardinality(DOMAIN documents) + 1

IdleUpload ==
    [pc |-> "idle", tenant_id |-> "t1", content |-> <<>>, found |-> FALSE,
     document_id |-> NoDoc, is_duplicate |-> FALSE, dispatched |-> FALSE]

\* A validation that also turns away content of exactly the ceiling.
ValidSize_strict(content) == Len(content) # 0 /\ Len(content) < max_size_bytes

\* execute, lines 117-123: size validation.
ValidSize(content) == Len(content) # 0 /\ ~(Len(content) > max_size_bytes)

\* execute up to the first await: validate, then enter register_document.
\* Calls are numbered in the order they begin.
UploadStart(r, t, b) ==
    /\ uploads[r].pc = "idle"
    /\ \A q \in 1..(r - 1) : uploads[q].pc # "idle"
    /\ uploads' = [uploads EXCEPT ![r] =
                     [@ EXCEPT !.tenant_id = t, !.content = b,
                               !.pc = IF ValidSize(b) THEN "lookup"
                                      ELSE "rejected"]]
    /\ UNCHANGED <<documents, storage, jobs, sweeps, otherThanIngest>>

\* register_document, step 3: hash the bytes and look the document up.
RegisterLookup(r) ==
    /\ uploads[r].pc = "lookup"
    /\ LET hit == find_by_content_hash(uploads[r].tenant_id,
                                       content_hash(uploads[r].content))
       IN  uploads' = [uploads EXCEPT ![r] =
             IF hit = {}
             THEN [@ EXCEPT !.pc = "persist"]
             ELSE [@ EXCEPT !.pc = "refresh", !.found = TRUE,
                            !.document_id = CHOOSE d \in hit : TRUE]]
    /\ UNCHANGED <<documents, storage, jobs, sweeps, otherThanIngest>>

\* The row register_document persists for a new document.
NewDocument(t, b, id) ==
    [tenant_id |-> t, content_hash |-> content_hash(b), status |-> "INGESTED",
     storage_path |-> <<t, id>>, error_message |-> "none"]

\* register_document, step 4, and the commit of execute (line 153): the
\* row has no uniqueness constraint on (tenant_id, content_hash).
RegisterPersist(r) ==
    /\ uploads[r].pc = "persist"
    /\ LET id == NewDocumentId
           t == uploads[r].tenant_id
       IN  /\ documents' = [d \in DOMAIN documents \cup {id} |->
                              IF d = id THEN NewDocument(t, uploads[r].content, id)
                              ELSE documents[d]]
           /\ storage' = storage \cup {<<t, id>>}
           /\ uploads' = [uploads EXCEPT ![r] =
                            [@ EXCEPT !.pc = "refresh", !.document_id = id]]
    /\ UNCHANGED <<jobs, sweeps, otherThanIngest>>

\* execute, line 157.
IsDuplicate(status) == status # "INGESTED"

\* A freshly enqueued process_document(document_id, tenant_id) job.
NewJob(d) ==
    [document_id |-> d, retries |-> 0, state |-> "queued", stage |-> "none"]

SetMin(S) == CHOOSE x \in S : \A y \in S : x <= y

\* Room left in the task queue of the model.
FreeSlots(q) == MaxJobs - BagCardinality(q)

\* dispatch: the job joins the queue.
Enqueue(q, d) == q (+) SetToBag({NewJob(d)})

\* The job is acknowledged and leaves the queue.
Ack(q, job) == q (-) SetToBag({job})

\* The queue with one job's record updated.
Update(q, job, new) == (q (-) SetToBag({job})) (+) SetToBag({new})

\* execute, lines 154-171: refresh the row, decide is_duplicate from its
\* status, dispatch the processing job when not a duplicate, return.
UploadFinish(r) ==
    /\ uploads[r].pc = "refresh"
    /\ LET d == uploads[r].document_id
           st == documents[d].status
           dup == IsDuplicate(st)
       IN  /\ dup \/ FreeSlots(jobs) > 0
           /\ uploads' = [uploads EXCEPT ![r] =
                            [@ EXCEPT !.pc = "done", !.is_duplicate = dup,
                                      !.dispatched = ~dup]]
           /\ jobs' = IF dup THEN jobs ELSE Enqueue(jobs, d)
    /\ UNCHANGED <<documents, storage, sweeps, otherThanIngest>>

(***************************************************************************)
(* The processing job and the task layer.                                  *)
(***************************************************************************)
\* A stage completed: only the status column changes.
Advance(d, st) == [documents EXCEPT ![d] = [@ EXCEPT !.status = st]]

\* The document fails, with the reason stored in error_message.
Fail(docs, d, msg) ==
    [docs EXCEPT ![d] = [@ EXCEPT !.status = "FAILED", !.error_message = msg]]

\* A check that lets a job go on whatever state the row is in.
InExpectedState_any(docs, job) == TRUE

\* The row is still in the state this job last saw or left it in.
InExpectedState(docs, job) == docs[job.document_id].status = job.stage

\* A worker takes the job: process_document reads the row and drives the
\* document through its remaining steps; a terminal document has none.
JobStart(job) ==
    /\ job.state = "queued"
    /\ LET st == documents[job.document_id].status
       IN  jobs' = IF st \in Terminal THEN Ack(jobs, job)
                   ELSE Update(jobs, job,
                               [job EXCEPT !.state = "running", !.stage = st])
    /\ UNCHANGED <<documents, storage, uploads, sweeps, otherThanIngest>>

\* The job's current stage succeeds: the document advances by one step.
StageSucceed(job) ==
    /\ job.state = "running"
    /\ LET d == job.document_id
           nxt == NextStatus(job.stage)
       IN  /\ InExpectedState(documents, job)
           /\ documents' = Advance(d, nxt)
           /\ jobs' = IF nxt \in Terminal THEN Ack(jobs, job)
                      ELSE Update(jobs, job, [job EXCEPT !.stage = nxt])
    /\ UNCHANGED <<storage, uploads, sweeps, otherThanIngest>>

\* StateConflict: the row is no longer in the state this job left it in
\* (another job or the recovery sweep moved it); the job logs and stops.
StateConflict(job) ==
    /\ job.state = "running"
    /\ ~InExpectedState(documents, job)
    /\ jobs' = Ack(jobs, job)
    /\ UNCHANGED <<documents, storage, uploads, sweeps, otherThanIngest>>

\* ProviderFatal: the stage fails for good; FAILED at once, no retry.
StageFailFatal(job) ==
    /\ job.state = "running"
    /\ LET d == job.document_id
       IN  /\ InExpectedState(documents, job)
           /\ documents' = Fail(documents, d, "stage_failed")
           /\ jobs' = Ack(jobs, job)
    /\ UNCHANGED <<storage, uploads, sweeps, otherThanIngest>>

\* A task layer that grants one retry too many.
MayRetry_inclusive(retries) == retries <= task_max_retries

\* Whether the task layer grants one more retry to a job that failed.
MayRetry(retries) == retries < task_max_retries

\* ProviderTransient: while retries remain the task layer delivers the job
\* again (after task_default_retry_delay, which the model does not time);
\* when none remain the document is marked FAILED.
StageFailTransient(job) ==
    /\ job.state = "running"
    /\ LET d == job.document_id
       IN  /\ InExpectedState(documents, job)
           /\ IF MayRetry(job.retries)
              THEN /\ jobs' = Update(jobs, job,
                                     [job EXCEPT !.state = "queued",
                                                 !.stage = "none",
                                                 !.retries = @ + 1])
                   /\ UNCHANGED documents
              ELSE /\ jobs' = Ack(jobs, job)
                   /\ documents' = Fail(documents, d, "retries_exhausted")
    /\ UNCHANGED <<storage, uploads, sweeps, otherThanIngest>>

(***************************************************************************)
(* Worker-startup recovery sweep.                                          *)
(***************************************************************************)
\* A sweep that does not look at the status.
StuckCandidates_any == DOMAIN documents

\* Documents the sweep may find stuck: those in a non-terminal state.
StuckCandidates ==
    {d \in DOMAIN documents : documents[d].status \notin Terminal}

RECURSIVE Requeue(_, _)
\* Re-enqueue one job per document of S, in id order.
Requeue(q, S) ==
    IF S = {} THEN q
    ELSE LET d == SetMin(S) IN Requeue(Enqueue(q, d), S \ {d})

\* run_recovery_sync: of the documents found stuck beyond the threshold
\* (stale), those of toFail are failed and the others re-enqueued.
RecoveredDocuments(stale, toFail) ==
    [d \in DOMAIN documents |->
        IF d \in toFail
        THEN [documents[d] EXCEPT !.status = "FAILED",
                                  !.error_message = "stale"]
        ELSE documents[d]]

\* on_worker_ready: runs the recovery once the worker is up; an exception
\* of the recovery is logged and the worker starts all the same.
on_worker_ready(stale, toFail, raises) ==
    /\ sweeps < MaxSweeps
    /\ sweeps' = sweeps + 1
    /\ stale \subseteq StuckCandidates
    /\ toFail \subseteq stale
    /\ Cardinality(stale \ toFail) <= FreeSlots(jobs)
    /\ IF raises
       THEN /\ stale = {} /\ toFail = {}
            /\ UNCHANGED <<documents, jobs>>
       ELSE /\ documents' = RecoveredDocuments(stale, toFail)
            /\ jobs' = Requeue(jobs, stale \ toFail)
    /\ UNCHANGED <<storage, uploads, otherThanIngest>>

IngestInit ==
    /\ documents = <<>>
    /\ storage = {}
    /\ uploads = [r \in 1..MaxUploads |-> IdleUpload]
    /\ jobs = EmptyBag
    /\ sweeps = 0

IngestIdle == IngestInit

ProcIdle ==
    /\ chunks = <<>>
    /\ unit = <<>>
    /\ sem = 0
    /\ proc = "unused"
    /\ unit_calls = <<>>

ParseIdle ==
    /\ parse_in = <<>>
    /\ parse_out = [kind |-> "none"]

ExtractIdle == ex = [pc |-> "unused"]

\* An empty graph store.
EmptyGraph ==
    [documents |-> {}, chunks |-> {}, has_chunk |-> {}, entities |-> EmptyBag,
     mentions |-> EmptyBag, related |-> EmptyBag, similar |-> EmptyBag,
     co_occurs |-> EmptyBag]

GraphIdle ==
    /\ graph = EmptyGraph
    /\ rows = <<>>
    /\ vectors = {}
    /\ blobs = {}
    /\ op = [pc |-> "unused"]

CommunityIdle ==
    /\ communities = <<>>
    /\ lifecycle = [pc |-> "unused"]

TicketIdle ==
    /\ redis = <<>>
    /\ issued = {}
    /\ redeems = <<>>

ServicesIdle == CommunityIdle /\ TicketIdle

Init ==
    /\ IngestInit /\ ProcIdle /\ ParseIdle /\ ExtractIdle /\ GraphIdle
    /\ ServicesIdle

Next ==
    \/ \E r \in 1..MaxUploads, t \in Tenants, b \in ByteStrings :
            UploadStart(r, t, b)
    \/ \E r \in 1..MaxUploads : RegisterLookup(r)
    \/ \E r \in 1..MaxUploads : RegisterPersist(r)
    \/ \E r \in 1..MaxUploads : UploadFinish(r)
    \/ \E job \in BagToSet(jobs) : JobStart(job)
    \/ \E job \in BagToSet(jobs) : StageSucceed(job)
    \/ \E job \in BagToSet(jobs) : StateConflict(job)
    \/ \E job \in BagToSet(jobs) : StageFailFatal(job)
    \/ \E job \in BagToSet(jobs) : StageFailTransient(job)
    \/ \E stale \in SUBSET StuckCandidates, raises \in BOOLEAN :
            \E toFail \in SUBSET stale : on_worker_ready(stale, toFail, raises)

Spec == Init /\ [][Next]_vars

(***************************************************************************)
(* Properties of registration and of the document state machine.           *)
(***************************************************************************)
\* Upload calls that returned after finding the bytes already registered.
FoundExisting(r) == uploads[r].pc = "done" /\ uploads[r].found

\* Number of processing jobs the upload path dispatched for document d.
UploadDispatches(d) ==
    Cardinality({r \in 1..MaxUploads :
                    uploads[r].dispatched /\ uploads[r].document_id = d})

\* C1: idempotent registration. An upload of bytes already registered for
\* the tenant (whatever the status of that document, INGESTED included)
\* returns is_duplicate = true and dispatches nothing, so no document has
\* more than one processing job dispatched by uploads.
C1_IdempotentRegistration ==
    /\ \A r \in 1..MaxUploads :
          FoundExisting(r) => uploads[r].is_duplicate /\ ~uploads[r].dispatched
    /\ \A d \in DOMAIN documents : UploadDispatches(d) <= 1

\* Uploads that got past validation / that validation turned away.
Accepted(r) == uploads[r].pc \in {"lookup", "persist", "refresh", "done"}
Rejected(r) == uploads[r].pc = "rejected"

\* C2: upload validation. A call is rejected exactly when its content is
\* empty or longer than max_size_bytes (exactly max_size_bytes is accepted);
\* a rejected call has no document, and every Document row, blob and job
\* stems from an accepted call.
C2_UploadValidation ==
    /\ \A r \in 1..MaxUploads :
          /\ Rejected(r) =>
                /\ Len(uploads[r].content) = 0
                     \/ Len(uploads[r].content) > max_size_bytes
                /\ uploads[r].document_id = NoDoc
                /\ ~uploads[r].dispatched
          /\ Accepted(r) =>
                /\ Len(uploads[r].content) >= 1
                /\ Len(uploads[r].content) <= max_size_bytes
    /\ \A d \in DOMAIN documents :
          \E r \in 1..MaxUploads :
             /\ Accepted(r)
             /\ uploads[r].document_id = d
             /\ documents[d].content_hash = content_hash(uploads[r].content)
    /\ \A path \in storage : path[2] \in DOMAIN documents
    /\ \A job \in BagToSet(jobs) : job.document_id \in DOMAIN documents

\* C2 witness: one call was rejected as oversized while another, with
\* content of exactly max_size_bytes, was registered.
C2_Witness ==
    \E r, q \in 1..MaxUploads :
       /\ Rejected(r) /\ Len(uploads[r].content) > max_size_bytes
       /\ uploads[q].pc = "done" /\ Len(uploads[q].content) = max_size_bytes
       /\ uploads[q].document_id \in DOMAIN documents

\* C3: uniqueness. At most one Document row per (tenant_id, content_hash),
\* also when two registrations of the same bytes interleave.
C3_UniquePerTenantAndHash ==
    \A d1, d2 \in DOMAIN documents :
       (/\ documents[d1].tenant_id = documents[d2].tenant_id
        /\ documents[d1].content_hash = documents[d2].content_hash) => d1 = d2

\* The legal moves of the chain, written out.
Successor ==
    {<<"INGESTED", "CLASSIFYING">>, <<"CLASSIFYING", "EXTRACTING">>,
     <<"EXTRACTING", "CHUNKING">>, <<"CHUNKING", "EMBEDDING">>,
     <<"EMBEDDING", "GRAPH_SYNCING">>, <<"GRAPH_SYNCING", "ENRICHING">>,
     <<"ENRICHING", "READY">>}

\* C4: step order. Every change of a document's status is a move to the
\* immediate successor in the chain, or a move from a non-terminal state
\* to FAILED.
C4_StepOrder ==
    [][\A d \in DOMAIN documents \cap DOMAIN documents' :
          documents'[d].status # documents[d].status =>
             \/ <<documents[d].status, documents'[d].status>> \in Successor
             \/ /\ documents[d].status \notin {"READY", "FAILED"}
                /\ documents'[d].status = "FAILED"]_vars

\* C4 witness: one document walked the whole chain and another failed on
\* the way.
C4_Witness ==
    \E d1, d2 \in DOMAIN documents :
       /\ documents[d1].status = "READY"
       /\ documents[d2].status = "FAILED"
       /\ documents[d2].error_message = "stage_failed"

\* C5: terminal states are absorbing. No step changes the status of a
\* document that is READY or FAILED.
C5_TerminalAbsorbing ==
    [][\A d \in DOMAIN documents \cap DOMAIN documents' :
          documents[d].status \in {"READY", "FAILED"} =>
             documents'[d].status = documents[d].status]_vars

\* C5 witness: a recovery sweep has run, a duplicate registration has
\* returned a terminal document, and a job for it is still queued.
C5_Witness ==
    \E r \in 1..MaxUploads :
       /\ FoundExisting(r)
       /\ documents[uploads[r].document_id].status \in {"READY", "FAILED"}
       /\ sweeps > 0
       /\ \E job \in BagToSet(jobs) :
             job.document_id = uploads[r].document_id

\* C6: bounded retry. No job is ever on more than its 3rd retry; a job
\* that fails with its 3 retries used up leaves the queue and its
\* document is FAILED, and a document whose retries were exhausted is
\* FAILED.
C6_BoundedRetry ==
    /\ [](\A job \in BagToSet(jobs) : job.retries <= 3)
    /\ [](\A d \in DOMAIN documents :
             documents[d].error_message = "retries_exhausted" =>
                documents[d].status = "FAILED")
    /\ [][\A job \in BagToSet(jobs) :
             (job.retries = 3 /\ StageFailTransient(job)) =>
                /\ documents'[job.document_id].status = "FAILED"
                /\ BagCardinality(jobs') < BagCardinality(jobs)]_vars

\* C6 witness: a document failed because its job ran out of retries.
C6_Witness ==
    \E d \in DOMAIN documents :
       /\ documents[d].status = "FAILED"
       /\ documents[d].error_message = "retries_exhausted"

(***************************************************************************)
(* GraphProcessor.process_chunks.                                          *)
(***************************************************************************)
\* Permits of the semaphore created by process_chunks.
SemaphorePermits == 5

\* Chunks shorter than this are skipped.
MinContentLength == 50

\* Content lengths the model hands in: just below and at the threshold.
ContentLengths == {MinContentLength - 1, MinContentLength}

FinalUnit ==
    {"skipped", "done_empty", "done_written", "failed_extract", "failed_write"}

\* A semaphore that lets every coroutine in.
MayAcquire_always(permits) == TRUE

\* async with sem: a coroutine enters while a permit is free.
MayAcquire(permits) == permits > 0

\* An exception of one unit that escapes to gather and so to the caller.
AfterException_propagate(p) == "raised"

\* except Exception in _process_one: the error is logged inside the unit
\* and the call goes on.
AfterException(p) == p

\* What a coroutine that has made no call yet has done.
NoCalls == [extract |-> 0, write |-> 0, entities |-> "unknown"]

\* A length check that also skips a chunk of exactly the minimum length.
TooShort_inclusive(len) == len <= MinContentLength

\* Line 40: if len(chunk.content) < 50.
TooShort(len) == len < MinContentLength

\* process_chunks up to gather: an empty list returns at once, otherwise
\* one _process_one coroutine per chunk is created.
ProcessChunksCall ==
    /\ proc = "idle"
    /\ IF chunks = <<>>
       THEN /\ proc' = "returned"
            /\ UNCHANGED <<unit, sem, unit_calls>>
       ELSE /\ proc' = "gathering"
            /\ unit' = [i \in DOMAIN chunks |-> "pending"]
            /\ sem' = SemaphorePermits
            /\ unit_calls' = [i \in DOMAIN chunks |-> NoCalls]
    /\ UNCHANGED <<chunks, otherThanProc>>

\* _process_one from the acquire to its first await: a short chunk returns
\* (and releases) at once, any other starts its extraction call.
UnitEnter(i) ==
    /\ proc \in {"gathering", "raised"}
    /\ unit[i] = "pending"
    /\ MayAcquire(sem)
    /\ IF TooShort(chunks[i])
       THEN /\ unit' = [unit EXCEPT ![i] = "skipped"]
            /\ UNCHANGED <<sem, unit_calls>>
       ELSE /\ unit' = [unit EXCEPT ![i] = "extracting"]
            /\ sem' = sem - 1
            /\ unit_calls' = [unit_calls EXCEPT ![i].extract = @ + 1]
    /\ UNCHANGED <<chunks, proc, otherThanProc>>

\* extractor.extract returns: with entities the write starts, without
\* the unit ends and releases its permit.
ExtractReturns(i, hasEntities) ==
    /\ unit[i] = "extracting"
    /\ IF hasEntities
       THEN /\ unit' = [unit EXCEPT ![i] = "writing"]
            /\ unit_calls' = [unit_calls EXCEPT ![i].write = @ + 1,
                                                ![i].entities = "some"]
            /\ UNCHANGED sem
       ELSE /\ unit' = [unit EXCEPT ![i] = "done_empty"]
            /\ unit_calls' = [unit_calls EXCEPT ![i].entities = "none"]
            /\ sem' = sem + 1
    /\ UNCHANGED <<chunks, proc, otherThanProc>>

\* extractor.extract raises.
ExtractRaises(i) ==
    /\ unit[i] = "extracting"
    /\ unit' = [unit EXCEPT ![i] = "failed_extract"]
    /\ sem' = sem + 1
    /\ proc' = AfterException(proc)
    /\ UNCHANGED <<chunks, unit_calls, otherThanProc>>

\* writer.write_extraction_result returns.
WriteReturns(i) ==
    /\ unit[i] = "writing"
    /\ unit' = [unit EXCEPT ![i] = "done_written"]
    /\ sem' = sem + 1
    /\ UNCHANGED <<chunks, proc, unit_calls, otherThanProc>>

\* writer.write_extraction_result raises.
WriteRaises(i) ==
    /\ unit[i] = "writing"
    /\ unit' = [unit EXCEPT ![i] = "failed_write"]
    /\ sem' = sem + 1
    /\ proc' = AfterException(proc)
    /\ UNCHANGED <<chunks, unit_calls, otherThanProc>>

\* asyncio.gather returns once every coroutine has returned.
GatherReturns ==
    /\ proc = "gathering"
    /\ \A i \in DOMAIN unit : unit[i] \in FinalUnit
    /\ proc' = "returned"
    /\ UNCHANGED <<chunks, unit, sem, unit_calls, otherThanProc>>

ProcInit ==
    /\ chunks \in UNION {[1..n -> ContentLengths] : n \in 0..MaxChunks}
    /\ unit = <<>>
    /\ sem = 0
    /\ proc = "idle"
    /\ unit_calls = <<>>

InitProc ==
    /\ ProcInit /\ IngestIdle /\ ParseIdle /\ ExtractIdle /\ GraphIdle
    /\ ServicesIdle

NextProc ==
    \/ ProcessChunksCall
    \/ \E i \in DOMAIN unit : UnitEnter(i)
    \/ \E i \in DOMAIN unit, hasEntities \in BOOLEAN :
          ExtractReturns(i, hasEntities)
    \/ \E i \in DOMAIN unit : ExtractRaises(i)
    \/ \E i \in DOMAIN unit : WriteReturns(i)
    \/ \E i \in DOMAIN unit : WriteRaises(i)
    \/ GatherReturns

SpecProc == InitProc /\ [][NextProc]_vars

InFlight == {i \in DOMAIN unit : unit[i] = "extracting"}

\* C7: concurrency bound. At no time are more than 5 extraction calls in
\* flight, however many chunks there are.
C7_ConcurrencyBound == Cardinality(InFlight) <= 5

\* C7 witness: more than 5 chunks, 5 extraction calls in flight and a
\* sixth long chunk kept waiting.
C7_Witness ==
    /\ Len(chunks) > 5
    /\ Cardinality(InFlight) = 5
    /\ \E i \in DOMAIN unit :
          unit[i] = "pending" /\ chunks[i] >= MinContentLength

\* C8: failure isolation and fan-in. process_chunks never raises to its
\* caller, and when it has returned every unit has run to its end:
\* skipped if short, otherwise succeeded or failed.
C8_IsolationAndFanIn ==
    /\ proc # "raised"
    /\ (proc = "returned" /\ chunks # <<>>) =>
          \A i \in DOMAIN chunks :
             IF chunks[i] < 50 THEN unit[i] = "skipped"
             ELSE unit[i] \in {"done_empty", "done_written",
                               "failed_extract", "failed_write"}

\* C8 witness: the call returned after one unit failed in extraction,
\* one failed in the write and one wrote its result.
C8_Witness ==
    /\ proc = "returned"
    /\ \E i, j, k \in DOMAIN unit :
          /\ unit[i] = "failed_extract"
          /\ unit[j] = "failed_write"
          /\ unit[k] = "done_written"

(***************************************************************************)
(* GraphExtractor._parse_result.                                           *)
(*                                                                         *)
(* A model output is a sequence of lexical units: "ws" is white space,     *)
(* "fence" the three backticks, "json" the word after an opening fence,    *)
(* "text" prose that is no JSON, and the others one complete JSON value    *)
(* each: an object the schema accepts with one entity ("obj_one"), with    *)
(* two entities and a relationship ("obj_two") or with none ("obj_none"),  *)
(* an object the schema refuses ("obj_bad"), a list and a number. No two   *)
(* units put side by side read as one JSON value.                          *)
(***************************************************************************)
Units == {"ws", "fence", "json", "text", "obj_one", "obj_two", "obj_none",
          "obj_bad", "list", "num"}

JsonObjects == {"obj_one", "obj_two", "obj_none", "obj_bad"}
JsonValues == JsonObjects \cup {"list", "num"}

ModelOutput == UNION {[1..n -> Units] : n \in 0..MaxOutputLen}

RECURSIVE lstrip(_)
lstrip(s) == IF s # <<>> /\ Head(s) = "ws" THEN lstrip(Tail(s)) ELSE s

RECURSIVE rstrip(_)
rstrip(s) ==
    IF s # <<>> /\ s[Len(s)] = "ws" THEN rstrip(SubSeq(s, 1, Len(s) - 1))
    ELSE s

\* str.strip()
strip(s) == rstrip(lstrip(s))

startswith(s, prefix) ==
    Len(s) >= Len(prefix) /\ SubSeq(s, 1, Len(prefix)) = prefix

endswith(s, suffix) ==
    Len(s) >= Len(suffix)
    /\ SubSeq(s, Len(s) - Len(suffix) + 1, Len(s)) = suffix

\* Lines 89-96: strip, drop an opening ```json, then an opening ```, then
\* a closing ```, strip again.
CleanFences(json_text) ==
    LET c0 == strip(json_text)
        c1 == IF startswith(c0, <<"fence", "json">>)
              THEN SubSeq(c0, 3, Len(c0)) ELSE c0
        c2 == IF startswith(c1, <<"fence">>)
              THEN SubSeq(c1, 2, Len(c1)) ELSE c1
        c3 == IF endswith(c2, <<"fence">>)
              THEN SubSeq(c2, 1, Len(c2) - 1) ELSE c2
    IN  strip(c3)

EmptyResult == [entities |-> <<>>, relationships |-> <<>>]

\* json.loads: the text decodes when it is exactly one JSON value.
json_loads(text) ==
    IF Len(text) = 1 /\ text[1] \in JsonValues
    THEN [ok |-> TRUE, data |-> text[1]]
    ELSE [ok |-> FALSE, data |-> "JSONDecodeError"]

\* ExtractionResult(**data) for data that is a JSON object.
Validate(data) ==
    CASE data = "obj_one" ->
            [ok |-> TRUE,
             value |-> [entities |-> <<"Neo4j">>, relationships |-> <<>>]]
      [] data = "obj_two" ->
            [ok |-> TRUE,
             value |-> [entities |-> <<"Python", "Driver">>,
                        relationships |-> <<"CONNECTS_TO">>]]
      [] data = "obj_none" -> [ok |-> TRUE, value |-> EmptyResult]
      [] OTHER -> [ok |-> FALSE, value |-> EmptyResult]

\* Lines 98-107: decode and validate. JSONDecodeError and ValidationError
\* are caught and give the empty result; unpacking data that is no
\* mapping raises TypeError, which no except clause of the function names.
_parse_result(json_text) ==
    LET decoded == json_loads(CleanFences(json_text))
    IN  IF ~decoded.ok
        THEN [kind |-> "result", value |-> EmptyResult]
        ELSE IF decoded.data \notin JsonObjects
        THEN [kind |-> "raised", value |-> EmptyResult]
        ELSE [kind |-> "result", value |-> Validate(decoded.data).value]

\* One call of _parse_result on the output handed in.
ParseCall ==
    /\ parse_out.kind = "pending"
    /\ parse_out' = _parse_result(parse_in)
    /\ UNCHANGED <<parse_in, otherThanParse>>

ParseInit ==
    /\ parse_in \in ModelOutput
    /\ parse_out = [kind |-> "pending"]

InitParse ==
    /\ ParseInit /\ IngestIdle /\ ProcIdle /\ ExtractIdle /\ GraphIdle
    /\ ServicesIdle

NextParse == ParseCall

SpecParse == InitParse /\ [][NextParse]_vars

\* C9: parsing contract. Whatever the model output, _parse_result returns
\* a result (schema-valid or empty) and never raises.
C9_ParseNeverRaises == parse_out.kind # "raised"

(***************************************************************************)
(* GraphExtractor.extract.                                                 *)
(***************************************************************************)
\* What the provider may answer to one generate call.
ProviderOutputs ==
    {<<"obj_one">>, <<"fence", "json", "obj_two", "fence">>, <<"obj_none">>,
     <<"obj_bad">>, <<"list">>, <<"text">>}

\* A merge that keeps only what the last pass found.
Merge_replace(current, new_items) == new_items

\* Lines 77-78: the gleaned items are appended to the current result.
Merge(current, new_items) ==
    [entities |-> current.entities \o new_items.entities,
     relationships |-> current.relationships \o new_items.relationships]

\* The try block of a pass: generate, then _parse_result. Either raising
\* ends in the except clause of extract.
PassOutcome(raises, out) ==
    IF raises THEN [kind |-> "raised", value |-> EmptyResult]
    ELSE _parse_result(out)

Return(e, result) == [e EXCEPT !.pc = "done", !.result = result]

\* How a pass ended, as the log of the call shows it.
Outcome(got) ==
    IF got.kind = "raised" THEN "raised"
    ELSE IF got.value.entities = <<>> THEN "empty" ELSE "entities"

\* A loop that goes on after a pass that found no entity.
StopsGleaning_raised(got) == got.kind = "raised"

\* Lines 72-73 and 80-82: a gleaning pass that raised or returned no
\* entity leaves the loop.
StopsGleaning(got) == got.kind = "raised" \/ got.value.entities = <<>>

\* Lines 39-52: the base pass. An exception returns the empty result;
\* without gleaning (or with no gleaning step) the base result is returned.
BasePass(raises, out) ==
    /\ ex.pc = "base"
    /\ LET got == PassOutcome(raises, out)
           e == [ex EXCEPT !.calls = @ + 1,
                           !.outcomes = Append(@, Outcome(got))]
       IN  ex' = IF got.kind = "raised" THEN Return(e, EmptyResult)
                 ELSE IF ~ex.use_gleaning \/ ex.max_gleaning_steps = 0
                 THEN Return(e, got.value)
                 ELSE [e EXCEPT !.pc = "glean", !.current = got.value]
    /\ UNCHANGED otherThanExtract

\* Lines 56-84: one pass of the gleaning loop. An exception or a pass
\* without entities leaves the loop; otherwise the new items are merged
\* and the loop goes on while steps remain.
GleanPass(raises, out) ==
    /\ ex.pc = "glean"
    /\ LET got == PassOutcome(raises, out)
           e == [ex EXCEPT !.calls = @ + 1,
                           !.outcomes = Append(@, Outcome(got))]
       IN  ex' = IF StopsGleaning(got)
                 THEN Return(e, ex.current)
                 ELSE LET merged == Merge(ex.current, got.value)
                      IN  IF ex.i + 1 < ex.max_gleaning_steps
                          THEN [e EXCEPT !.current = merged, !.i = @ + 1]
                          ELSE Return([e EXCEPT !.current = merged,
                                                !.i = @ + 1], merged)
    /\ UNCHANGED otherThanExtract

ExtractInit ==
    \E g \in BOOLEAN, n \in 0..MaxGleaningSteps :
       ex = [pc |-> "base", use_gleaning |-> g, max_gleaning_steps |-> n,
             current |-> EmptyResult, i |-> 0, calls |-> 0,
             outcomes |-> <<>>, result |-> EmptyResult]

InitExtract ==
    /\ ExtractInit /\ IngestIdle /\ ProcIdle /\ ParseIdle /\ GraphIdle
    /\ ServicesIdle

NextExtract ==
    \/ \E raises \in BOOLEAN, out \in ProviderOutputs : BasePass(raises, out)
    \/ \E raises \in BOOLEAN, out \in ProviderOutputs : GleanPass(raises, out)

SpecExtract == InitExtract /\ [][NextExtract]_vars

IsPrefix(s, t) == Len(s) <= Len(t) /\ SubSeq(t, 1, Len(s)) = s

\* C10: gleaning monotonicity. Every step of the gleaning loop keeps the
\* entities held so far as a prefix of those held afterwards, and the
\* result returned from the loop holds everything accumulated, also when
\* the pass raised or gave malformed output.
C10_GleaningMonotone ==
    [][ex.pc = "glean" =>
          /\ IsPrefix(ex.current.entities, ex'.current.entities)
          /\ ex'.pc = "done" => ex'.result = ex'.current]_vars

\* C10 witness: a gleaning pass added entities to those of the base pass,
\* and the call returned them all after a further pass had raised or found
\* nothing.
C10_Witness ==
    /\ ex.pc = "done"
    /\ ex.i = 1
    /\ ex.max_gleaning_steps >= 2
    /\ Len(ex.result.entities) >= 3

(***************************************************************************)
(* Graph store contents shared by the writer, the enricher and deletion.   *)
(*                                                                         *)
(* Nodes and edges are kept in bags, so that a node or an edge written     *)
(* twice would show as two.                                                *)
(***************************************************************************)
MaxWrites == 3

\* Documents of the model, their tenants and their chunks.
DocIds == {"d1", "d2", "d3"}
DocTenant == [d \in DocIds |-> IF d = "d3" THEN "t2" ELSE "t1"]
ChunkIds == {"c1", "c2", "c3", "c4"}
ChunkDocument ==
    [c \in ChunkIds |->
        CASE c \in {"c1", "c2"} -> "d1" [] c = "c3" -> "d2" [] OTHER -> "d3"]

\* Entity names and the one relationship of the example scenario.
Names == {"Neo4j", "Python"}
Connects == [source |-> "Python", target |-> "Neo4j", type |-> "CONNECTS_TO"]

\* Extraction results handed to the writer: the example scenario, a single
\* entity, and a gleaned result that lists items twice.
WriteResults ==
    {[entities |-> <<"Neo4j", "Python">>, relationships |-> <<Connects>>],
     [entities |-> <<"Neo4j">>, relationships |-> <<>>],
     [entities |-> <<"Python", "Neo4j", "Python">>,
      relationships |-> <<Connects, Connects>>]}

Entity(t, name) == [tenant_id |-> t, name |-> name]
DocumentNode(t, d) == [tenant_id |-> t, id |-> d]
MentionsEdge(c, e) == [chunk |-> c, entity |-> e]

\* A write that inserts without looking for the key.
MergeNode_create(bag, item) == bag (+) SetToBag({item})

\* MERGE of a node or of an attribute-free edge: added only when absent.
MergeNode(bag, item) ==
    IF BagIn(item, bag) THEN bag ELSE bag (+) SetToBag({item})

\* Relationship edges of (source, target, type) among edges.
SameRelationship(edges, key) ==
    {e \in BagToSet(edges) :
        e.source = key.source /\ e.target = key.target /\ e.type = key.type}

\* MERGE of a relationship on (source, target, type): a repeated
\* extraction strengthens the edge, a first one creates it.
MergeRelated(edges, key) ==
    LET hit == SameRelationship(edges, key)
    IN  IF hit = {}
        THEN edges (+) SetToBag({[source |-> key.source, target |-> key.target,
                                  type |-> key.type, weight |-> 1]})
        ELSE LET e == CHOOSE x \in hit : TRUE
             IN  (edges (-) SetToBag({e}))
                   (+) SetToBag({[e EXCEPT !.weight = @ + 1]})

\* A writer that merges the entity and leaves out the provenance edge.
ProvenanceEdges_none(mentions, c, e) == mentions

\* The provenance edge from the chunk to the entity, created alongside
\* the entity merge.
ProvenanceEdges(mentions, c, e) == MergeNode(mentions, MentionsEdge(c, e))

\* Numbers of entity nodes, relationship edges and MENTIONS edges.
Counts(g) ==
    [entities |-> BagCardinality(g.entities),
     related |-> BagCardinality(g.related),
     mentions |-> BagCardinality(g.mentions)]

(***************************************************************************)
(* GraphWriter.write_extraction_result.                                    *)
(***************************************************************************)
\* The call begins: the Document and Chunk nodes of the provenance are
\* merged and linked by HAS_CHUNK.
WriteCall(c, R) ==
    /\ op.pc \in {"write_idle", "write_returned", "write_raised"}
    /\ op.calls < MaxWrites
    /\ LET d == ChunkDocument[c]
           t == DocTenant[d]
           args == [document_id |-> d, chunk_id |-> c, tenant_id |-> t,
                    result |-> R]
       IN  /\ op' = [pc |-> "write_entities", args |-> args, i |-> 1,
                     before |-> Counts(graph), repeat |-> args \in op.written,
                     written |-> op.written, calls |-> op.calls + 1]
           /\ graph' = [graph EXCEPT
                  !.documents = @ \cup {DocumentNode(t, d)},
                  !.chunks = @ \cup {c},
                  !.has_chunk = @ \cup {<<DocumentNode(t, d), c>>}]
    /\ UNCHANGED <<rows, vectors, blobs, otherThanGraph>>

\* One entity of the result is merged on (tenant_id, name), together with
\* its provenance edge.
WriteEntity ==
    /\ op.pc = "write_entities"
    /\ op.i <= Len(op.args.result.entities)
    /\ LET e == Entity(op.args.tenant_id, op.args.result.entities[op.i])
       IN  graph' = [graph EXCEPT
               !.entities = MergeNode(@, e),
               !.mentions = ProvenanceEdges(@, op.args.chunk_id, e)]
    /\ op' = [op EXCEPT !.i = @ + 1]
    /\ UNCHANGED <<rows, vectors, blobs, otherThanGraph>>

\* The entities are written: the relationships follow.
WriteEntitiesDone ==
    /\ op.pc = "write_entities"
    /\ op.i > Len(op.args.result.entities)
    /\ op' = [op EXCEPT !.pc = "write_relationships", !.i = 1]
    /\ UNCHANGED <<graph, rows, vectors, blobs, otherThanGraph>>

\* One relationship of the result is merged on (source, target, type).
WriteRelationship ==
    /\ op.pc = "write_relationships"
    /\ op.i <= Len(op.args.result.relationships)
    /\ LET r == op.args.result.relationships[op.i]
           key == [source |-> Entity(op.args.tenant_id, r.source),
                   target |-> Entity(op.args.tenant_id, r.target),
                   type |-> r.type]
       IN  graph' = [graph EXCEPT !.related = MergeRelated(@, key)]
    /\ op' = [op EXCEPT !.i = @ + 1]
    /\ UNCHANGED <<rows, vectors, blobs, otherThanGraph>>

\* write_extraction_result returns.
WriteDone ==
    /\ op.pc = "write_relationships"
    /\ op.i > Len(op.args.result.relationships)
    /\ op' = [op EXCEPT !.pc = "write_returned",
                        !.written = @ \cup {op.args}]
    /\ UNCHANGED <<graph, rows, vectors, blobs, otherThanGraph>>

\* A graph call of the writer raises: the call ends where it stands.
WriteFails ==
    /\ op.pc \in {"write_entities", "write_relationships"}
    /\ op' = [op EXCEPT !.pc = "write_raised"]
    /\ UNCHANGED <<graph, rows, vectors, blobs, otherThanGraph>>

WriteInit ==
    /\ graph = EmptyGraph
    /\ rows = <<>>
    /\ vectors = {}
    /\ blobs = {}
    /\ op = [pc |-> "write_idle", written |-> {}, calls |-> 0]

InitWrite ==
    /\ WriteInit /\ IngestIdle /\ ProcIdle /\ ParseIdle /\ ExtractIdle
    /\ ServicesIdle

NextWrite ==
    \/ \E c \in ChunkIds, R \in WriteResults : WriteCall(c, R)
    \/ WriteEntity
    \/ WriteEntitiesDone
    \/ WriteRelationship
    \/ WriteDone
    \/ WriteFails

SpecWrite == InitWrite /\ [][NextWrite]_vars

\* C11: write idempotence. When write_extraction_result returns from a
\* call whose arguments a completed call had already written, the numbers
\* of Entity nodes, relationship edges and MENTIONS edges are what they
\* were when the call began; and at all times there is one Entity node
\* per (tenant_id, name) and one relationship edge per (source, target,
\* type).
C11_WriteIdempotent ==
    /\ (op.pc = "write_returned" /\ op.repeat) => Counts(graph) = op.before
    /\ \A e \in BagToSet(graph.entities) : CopiesIn(e, graph.entities) = 1
    /\ \A e \in BagToSet(graph.related) :
          /\ CopiesIn(e, graph.related) = 1
          /\ SameRelationship(graph.related, e) = {e}

\* C11 witness: the example result, with its relationship, was written a
\* second time for the same chunk and the call returned.
C11_Witness ==
    /\ op.pc = "write_returned"
    /\ op.repeat
    /\ op.args.result.relationships # <<>>
    /\ \E e \in BagToSet(graph.related) : e.weight >= 2

\* C12: provenance. When write_extraction_result has returned, every
\* entity of the result has a MENTIONS edge from the chunk of the call;
\* and every Entity node in the graph has an incoming MENTIONS edge, from
\* the moment it is created.
C12_Provenance ==
    /\ op.pc = "write_returned" =>
          \A k \in 1..Len(op.args.result.entities) :
             BagIn(MentionsEdge(op.args.chunk_id,
                                Entity(op.args.tenant_id,
                                       op.args.result.entities[k])),
                   graph.mentions)
    /\ \A e \in BagToSet(graph.entities) :
          \E m \in BagToSet(graph.mentions) : m.entity = e

\* C12 witness: a call returned after writing two entities, one of which
\* another chunk mentions as well.
C12_Witness ==
    /\ op.pc = "write_returned"
    /\ Len(op.args.result.entities) >= 2
    /\ \E m \in BagToSet(graph.mentions) :
          /\ m.chunk # op.args.chunk_id
          /\ m.entity.tenant_id = op.args.tenant_id

(***************************************************************************)
(* DeleteDocumentUseCase.execute.                                          *)
(***************************************************************************)
MaxDeletes == 2

\* The blob path register_document stores, and the folder path execute
\* falls back to when the row is missing (line 258).
BlobPath(t, d) == <<t, d, "file">>
FolderPath(t, d) == <<t, d>>

\* Tag of one vector of the index.
VectorTag(t, d, c) == [tenant_id |-> t, document_id |-> d, chunk_id |-> c]

\* The part of a bag made of the elements of keep.
KeepBag(bag, keep) == [x \in keep |-> bag[x]]

\* Chunks the graph links to a Document node by HAS_CHUNK.
ChunksOf(g, node) == {c \in g.chunks : <<node, c>> \in g.has_chunk}

\* Entities that chunks of cs mention.
MentionedBy(g, cs) ==
    {m.entity : m \in {x \in BagToSet(g.mentions) : x.chunk \in cs}}

\* A cleanup that deletes every entity the document mentioned.
Orphans_all(ents, mentions) == ents

\* A cleanup that deletes no entity.
Orphans_none(ents, mentions) == {}

\* Line 272: of the collected entities, those left without any incoming
\* MENTIONS edge.
Orphans(ents, mentions) ==
    {e \in ents : ~\E m \in BagToSet(mentions) : m.entity = e}

\* The Cypher statement of lines 263-274: the Document node of
\* (document_id, tenant_id) and its chunks are detach-deleted, then the
\* entities they mentioned that no chunk mentions any more.
DeleteFromGraph(g, d, t) ==
    LET node == DocumentNode(t, d)
        cs == ChunksOf(g, node)
        ents == MentionedBy(g, cs)
        mentions1 == KeepBag(g.mentions,
                       {m \in BagToSet(g.mentions) : m.chunk \notin cs})
        gone == Orphans(ents, mentions1)
    IN  IF node \notin g.documents THEN g
        ELSE [documents |-> g.documents \ {node},
              chunks |-> g.chunks \ cs,
              has_chunk |-> {h \in g.has_chunk : h[1] # node /\ h[2] \notin cs},
              entities |-> KeepBag(g.entities, BagToSet(g.entities) \ gone),
              mentions |-> KeepBag(mentions1,
                             {m \in BagToSet(mentions1) : m.entity \notin gone}),
              related |-> KeepBag(g.related,
                            {r \in BagToSet(g.related) :
                                r.source \notin gone /\ r.target \notin gone}),
              similar |-> KeepBag(g.similar,
                            {s \in BagToSet(g.similar) :
                                s.from \notin cs /\ s.to \notin cs}),
              co_occurs |-> KeepBag(g.co_occurs,
                              {r \in BagToSet(g.co_occurs) :
                                  r.source \notin gone /\ r.target \notin gone})]

\* A vector cleanup that does not look at the tenant.
DeleteVectors_untenanted(vs, d, t) == {v \in vs : v.document_id # d}

\* delete_by_document(document_id, tenant_id).
DeleteVectors(vs, d, t) ==
    {v \in vs : ~(v.document_id = d /\ v.tenant_id = t)}

\* An exception of a cleanup step that leaves execute.
AfterStepException_propagate(nextStep) == "delete_raised"

\* except Exception of a cleanup step: a warning is logged and execute
\* goes on with the next step.
AfterStepException(nextStep) == nextStep

\* A cleanup that always runs under the tenant that owns the document.
ResolveTenant_owner(d, t, found) == DocTenant[d]

\* Line 257: the tenant of the cleanup is the row's, or the caller's when
\* the lookup found no row.
ResolveTenant(d, t, found) == IF found THEN rows[d].tenant_id ELSE t

\* Entities of g that only chunks of document d mention.
ExclusivelyMentioned(g, d) ==
    {e \in BagToSet(g.entities) :
        \A m \in BagToSet(g.mentions) :
           m.entity = e => ChunkDocument[m.chunk] = d}

\* Lines 246-258: the row is looked up (within the caller's tenant unless
\* super admin); tenant_id and storage_path come from the row, or from the
\* request when there is none.
DeleteCall(d, t, is_super_admin) ==
    /\ op.pc \in {"delete_idle", "delete_returned", "delete_raised"}
    /\ op.calls < MaxDeletes
    /\ LET found == d \in DOMAIN rows
                    /\ (is_super_admin \/ rows[d].tenant_id = t)
           args == [document_id |-> d, tenant_id |-> t,
                    is_super_admin |-> is_super_admin]
       IN  op' = [pc |-> "delete_graph",
                  args |-> args,
                  document |-> found,
                  tenant_id |-> ResolveTenant(d, t, found),
                  storage_path |-> IF found THEN rows[d].storage_path
                                   ELSE FolderPath(t, d),
                  attempted |-> <<>>,
                  raised |-> {},
                  exclusive |-> ExclusivelyMentioned(graph, d),
                  before |-> <<graph, rows, vectors, blobs>>,
                  repeat |-> /\ op.pc = "delete_returned"
                             /\ op.args = args
                             /\ op.raised = {},
                  calls |-> op.calls + 1]
    /\ UNCHANGED <<graph, rows, vectors, blobs, otherThanGraph>>

\* Lines 260-281: graph cleanup. The statement runs in one transaction;
\* when it raises nothing is deleted.
GraphCleanup(raises) ==
    /\ op.pc = "delete_graph"
    /\ IF raises
       THEN /\ UNCHANGED graph
            /\ op' = [op EXCEPT !.pc = AfterStepException("delete_vector"),
                                !.attempted = Append(@, "graph"),
                                !.raised = @ \cup {"graph"}]
       ELSE /\ graph' = DeleteFromGraph(graph, op.args.document_id,
                                        op.tenant_id)
            /\ op' = [op EXCEPT !.pc = "delete_vector",
                                !.attempted = Append(@, "graph")]
    /\ UNCHANGED <<rows, vectors, blobs, otherThanGraph>>

\* Lines 283-293: vector cleanup. delete_by_document or the disconnect of
\* the finally clause may raise, so a raise comes with or without the
\* vectors deleted.
VectorCleanup(raises, applied) ==
    /\ op.pc = "delete_vector"
    /\ raises \/ applied
    /\ vectors' = IF applied
                  THEN DeleteVectors(vectors, op.args.document_id, op.tenant_id)
                  ELSE vectors
    /\ op' = IF raises
             THEN [op EXCEPT !.pc = AfterStepException("delete_storage"),
                             !.attempted = Append(@, "vector"),
                             !.raised = @ \cup {"vector"}]
             ELSE [op EXCEPT !.pc = "delete_storage",
                             !.attempted = Append(@, "vector")]
    /\ UNCHANGED <<graph, rows, blobs, otherThanGraph>>

\* Lines 295-304: object storage cleanup; delete_file removes the object
\* stored under exactly storage_path.
StorageCleanup(raises) ==
    /\ op.pc = "delete_storage"
    /\ blobs' = IF raises THEN blobs ELSE blobs \ {op.storage_path}
    /\ op' = IF raises
             THEN [op EXCEPT !.pc = AfterStepException("delete_row"),
                             !.attempted = Append(@, "storage"),
                             !.raised = @ \cup {"storage"}]
             ELSE [op EXCEPT !.pc = "delete_row",
                             !.attempted = Append(@, "storage")]
    /\ UNCHANGED <<graph, rows, vectors, otherThanGraph>>

\* Lines 306-314: the row is deleted and committed when the lookup found
\* it, and the result is returned. Nothing catches an exception of the
\* delete or the commit.
RelationalDelete(raises) ==
    /\ op.pc = "delete_row"
    /\ IF ~op.document
       THEN /\ ~raises
            /\ UNCHANGED rows
            /\ op' = [op EXCEPT !.pc = "delete_returned"]
       ELSE IF raises
       THEN /\ UNCHANGED rows
            /\ op' = [op EXCEPT !.pc = "delete_raised",
                                !.attempted = Append(@, "relational"),
                                !.raised = @ \cup {"relational"}]
       ELSE /\ rows' = [x \in DOMAIN rows \ {op.args.document_id} |-> rows[x]]
            /\ op' = [op EXCEPT !.pc = "delete_returned",
                                !.attempted = Append(@, "relational")]
    /\ UNCHANGED <<graph, vectors, blobs, otherThanGraph>>

\* What the chunks mention before any deletion: c1 and c3 vary, c2
\* mentions Python and c4 (of the other tenant) Neo4j.
MentionScenarios ==
    {[c \in ChunkIds |->
         CASE c = "c1" -> s1 [] c = "c2" -> {"Python"} [] c = "c3" -> s3
           [] OTHER -> {"Neo4j"}] : s1 \in SUBSET Names, s3 \in SUBSET Names}

\* The graph the writer leaves after the chunks were written as mentioned.
WrittenGraph(mentioned) ==
    LET ms == {MentionsEdge(c, Entity(DocTenant[ChunkDocument[c]], n)) :
                  c \in ChunkIds, n \in Names}
        edges == {m \in ms : m.entity.name \in mentioned[m.chunk]}
        ents == {m.entity : m \in edges}
        both == {t \in Tenants :
                    \E c \in ChunkIds : /\ DocTenant[ChunkDocument[c]] = t
                                        /\ mentioned[c] = Names}
    IN  [documents |-> {DocumentNode(DocTenant[d], d) : d \in DocIds},
         chunks |-> ChunkIds,
         has_chunk |-> {<<DocumentNode(DocTenant[ChunkDocument[c]],
                                       ChunkDocument[c]), c>> : c \in ChunkIds},
         entities |-> SetToBag(ents),
         mentions |-> SetToBag(edges),
         related |-> SetToBag({[source |-> Entity(t, Connects.source),
                                target |-> Entity(t, Connects.target),
                                type |-> Connects.type, weight |-> 1] :
                                  t \in both}),
         similar |-> EmptyBag,
         co_occurs |-> EmptyBag]

\* Every document registered, chunked, embedded and written to the graph.
DeleteInit ==
    /\ \E mentioned \in MentionScenarios : graph = WrittenGraph(mentioned)
    /\ rows = [d \in DocIds |->
                 [tenant_id |-> DocTenant[d],
                  storage_path |-> BlobPath(DocTenant[d], d)]]
    /\ vectors = {VectorTag(DocTenant[ChunkDocument[c]], ChunkDocument[c], c) :
                     c \in ChunkIds}
    /\ blobs = {BlobPath(DocTenant[d], d) : d \in DocIds}
    /\ op = [pc |-> "delete_idle", calls |-> 0]

InitDelete ==
    /\ DeleteInit /\ IngestIdle /\ ProcIdle /\ ParseIdle /\ ExtractIdle
    /\ ServicesIdle

NextDelete ==
    \/ \E d \in DocIds, t \in Tenants, is_super_admin \in BOOLEAN :
          DeleteCall(d, t, is_super_admin)
    \/ \E raises \in BOOLEAN : GraphCleanup(raises)
    \/ \E raises, applied \in BOOLEAN : VectorCleanup(raises, applied)
    \/ \E raises \in BOOLEAN : StorageCleanup(raises)
    \/ \E raises \in BOOLEAN : RelationalDelete(raises)

SpecDelete == InitDelete /\ [][NextDelete]_vars

(***************************************************************************)
(* Properties of deletion.                                                 *)
(***************************************************************************)
\* Chunks of document d, and whether the stores still hold anything of d.
DocumentChunks(d) == {c \in ChunkIds : ChunkDocument[c] = d}

\* C13: deletion totality. When delete_document returns for a document D
\* it resolved, with every store call having succeeded, the entities that
\* only chunks of D mentioned are absent from the graph, as are D's
\* Document and Chunk nodes; no vector tagged with D remains and the row
\* of D is absent.
C13_DeletionTotality ==
    (op.pc = "delete_returned" /\ op.document /\ op.raised = {}) =>
       LET d == op.args.document_id
       IN  /\ \A e \in op.exclusive : ~BagIn(e, graph.entities)
           /\ \A t \in Tenants : DocumentNode(t, d) \notin graph.documents
           /\ graph.chunks \cap DocumentChunks(d) = {}
           /\ \A m \in BagToSet(graph.mentions) : m.chunk \notin DocumentChunks(d)
           /\ \A v \in vectors : v.document_id # d
           /\ d \notin DOMAIN rows

\* C13 witness: the deletion of a document returned with every step
\* succeeding; it removed two entities only that document mentioned, and
\* the related edge between them.
C13_Witness ==
    /\ op.pc = "delete_returned" /\ op.document /\ op.raised = {}
    /\ Cardinality(op.exclusive) = 2
    /\ BagCardinality(op.before[1].related) > BagCardinality(graph.related)

\* C14: shared entities survive. The graph cleanup of D keeps the
\* Document node and the Chunk nodes of every other document, every
\* MENTIONS edge from their chunks and the entities those edges point to;
\* no other step of the deletion changes the graph.
C14_SharedEntitiesSurvive ==
    [][IF op.pc = "delete_graph"
       THEN \A d2 \in DocIds \ {op.args.document_id} :
               /\ \A t \in Tenants :
                     DocumentNode(t, d2) \in graph.documents =>
                        DocumentNode(t, d2) \in graph'.documents
               /\ \A c \in DocumentChunks(d2) \cap graph.chunks :
                     c \in graph'.chunks
               /\ \A h \in graph.has_chunk :
                     h[2] \in DocumentChunks(d2) => h \in graph'.has_chunk
               /\ \A m \in BagToSet(graph.mentions) :
                     m.chunk \in DocumentChunks(d2) =>
                        /\ BagIn(m, graph'.mentions)
                        /\ BagIn(m.entity, graph'.entities)
       ELSE graph' = graph]_vars

\* C14 witness: D was deleted with every step succeeding; an entity that
\* a chunk of D and a chunk of another document both mentioned is still
\* in the graph, while an entity only D mentioned is gone.
C14_Witness ==
    /\ op.pc = "delete_returned" /\ op.document /\ op.raised = {}
    /\ op.exclusive # {}
    /\ \E m1, m2 \in BagToSet(op.before[1].mentions) :
          /\ m1.entity = m2.entity
          /\ ChunkDocument[m1.chunk] = op.args.document_id
          /\ ChunkDocument[m2.chunk] # op.args.document_id
          /\ BagIn(m2, graph.mentions)
          /\ BagIn(m2.entity, graph.entities)

\* The steps of a deletion in the order of the code.
DeleteSteps == <<"graph", "vector", "storage", "relational">>

\* C15: deletion step isolation. An exception of the graph, vector or
\* storage cleanup never leaves the call; the steps are attempted in the
\* order graph, vector, storage, relational; and a call that returns has
\* attempted all of them and deleted the row it resolved.
C15_StepIsolation ==
    /\ op.pc = "delete_raised" => "relational" \in op.raised
    /\ op.pc \in {"delete_graph", "delete_vector", "delete_storage",
                  "delete_row", "delete_returned", "delete_raised"} =>
          IsPrefix(op.attempted, DeleteSteps)
    /\ op.pc = "delete_vector" => Len(op.attempted) = 1
    /\ op.pc = "delete_storage" => Len(op.attempted) = 2
    /\ op.pc = "delete_row" => Len(op.attempted) = 3
    /\ (op.pc = "delete_returned" /\ op.document) =>
          /\ op.attempted = DeleteSteps
          /\ op.args.document_id \notin DOMAIN rows

\* C15 witness: the graph cleanup and the vector cleanup both raised, and
\* the call went on to delete the row and returned.
C15_Witness ==
    /\ op.pc = "delete_returned"
    /\ op.document
    /\ op.raised = {"graph", "vector"}
    /\ op.attempted = DeleteSteps
    /\ op.args.document_id \notin DOMAIN rows

\* C16: re-runnable deletion. A call for a document whose row is already
\* absent runs the graph, vector and storage cleanup under the caller's
\* tenant_id, skips the relational delete, does not raise and returns;
\* and a call that repeats a call that returned with every step
\* succeeding leaves all four stores as it found them.
C16_RerunnableDeletion ==
    /\ (op.pc \in {"delete_graph", "delete_vector", "delete_storage",
                   "delete_row", "delete_returned", "delete_raised"}
        /\ op.args.document_id \notin DOMAIN op.before[2]) =>
          /\ ~op.document
          /\ op.tenant_id = op.args.tenant_id
          /\ op.pc # "delete_raised"
          /\ rows = op.before[2]
          /\ op.pc = "delete_returned" =>
                /\ op.attempted = <<"graph", "vector", "storage">>
                /\ "graph" \notin op.raised =>
                      graph = DeleteFromGraph(op.before[1],
                                 op.args.document_id, op.args.tenant_id)
    /\ (op.pc = "delete_returned" /\ op.repeat) =>
          <<graph, rows, vectors, blobs>> = op.before

\* C16 witness: a first deletion removed the row although its graph
\* cleanup had raised; the deletion was run again, found no row, and its
\* graph cleanup under the caller's tenant removed what was left.
C16_Witness ==
    /\ op.pc = "delete_returned"
    /\ op.args.document_id \notin DOMAIN op.before[2]
    /\ op.raised = {}
    /\ graph # op.before[1]
    /\ \A t \in Tenants :
          DocumentNode(t, op.args.document_id) \notin graph.documents

\* C17: deletion is reported only once the row is gone. Whenever
\* delete_document has returned status 'deleted', no relational row with
\* that document_id exists, for any tenant.
C17_DeletedMeansRowGone ==
    op.pc = "delete_returned" => op.args.document_id \notin DOMAIN rows

(***************************************************************************)
(* GraphEnricher.create_similarity_edges.                                  *)
(***************************************************************************)
MaxSimilarityCalls == 2
MaxLimit == 1

\* Similarity scores of the model and the ids the search may return.
Scores == {1, 2, 3}
ResultIds == {"c1", "c2", "c3"}
SearchHits == [id : ResultIds, score : Scores]

\* What vector_store.search may return when asked for limit + 1 matches.
SearchResults(limit) == UNION {[1..n -> SearchHits] : n \in 0..(limit + 1)}

\* SIMILAR_TO edges from chunk a to chunk b among edges.
SimilarBetween(edges, a, b) ==
    {e \in BagToSet(edges) : e.from = a /\ e.to = b}

\* A filter that also drops a result scoring exactly the threshold.
Skipped_strict(res, chunk_id, threshold) ==
    res.id = chunk_id \/ res.score <= threshold

\* Lines 60-64: a result is passed over when it is the chunk itself or
\* scores below the threshold.
Skipped(res, chunk_id, threshold) ==
    res.id = chunk_id \/ res.score < threshold

\* A statement that creates the edge without looking for one.
MergeSimilar_create(g, a, b, score) ==
    IF a \in g.chunks /\ b \in g.chunks
    THEN g.similar (+) SetToBag({[from |-> a, to |-> b, score |-> score]})
    ELSE g.similar

\* Lines 71-76: both Chunk nodes are matched by id, the edge is merged and
\* its score set only when the edge is created.
MergeSimilar(g, a, b, score) ==
    IF a \in g.chunks /\ b \in g.chunks /\ SimilarBetween(g.similar, a, b) = {}
    THEN g.similar (+) SetToBag({[from |-> a, to |-> b, score |-> score]})
    ELSE g.similar

\* Lines 31-52: the vector store is looked up and searched; when either
\* fails the error is logged and the call returns.
SimilarityCall(chunk_id, threshold, limit, available, results) ==
    /\ op.pc \in {"similar_idle", "similar_returned", "similar_raised"}
    /\ op.calls < MaxSimilarityCalls
    /\ results \in SearchResults(limit)
    /\ ~available => results = <<>>
    /\ LET args == [chunk_id |-> chunk_id, threshold |-> threshold,
                    limit |-> limit, results |-> results]
       IN  op' = [pc |-> IF available THEN "similar_loop"
                         ELSE "similar_returned",
                  args |-> args, i |-> 1, searched |-> available,
                  before |-> graph,
                  repeat |-> op.pc = "similar_returned" /\ op.args = args,
                  calls |-> op.calls + 1]
    /\ UNCHANGED <<graph, rows, vectors, blobs, otherThanGraph>>

\* Lines 56-82: one pass of the loop. A write that raises leaves the call.
SimilarityStep(raises) ==
    /\ op.pc = "similar_loop"
    /\ op.i <= Len(op.args.results)
    /\ LET res == op.args.results[op.i]
       IN  IF Skipped(res, op.args.chunk_id, op.args.threshold)
           THEN /\ ~raises
                /\ op' = [op EXCEPT !.i = @ + 1]
                /\ UNCHANGED graph
           ELSE IF raises
           THEN /\ op' = [op EXCEPT !.pc = "similar_raised"]
                /\ UNCHANGED graph
           ELSE /\ op' = [op EXCEPT !.i = @ + 1]
                /\ graph' = [graph EXCEPT !.similar =
                               MergeSimilar(graph, op.args.chunk_id, res.id,
                                            res.score)]
    /\ UNCHANGED <<rows, vectors, blobs, otherThanGraph>>

\* Line 84: the loop is over and the call returns.
SimilarityReturn ==
    /\ op.pc = "similar_loop"
    /\ op.i > Len(op.args.results)
    /\ op' = [op EXCEPT !.pc = "similar_returned"]
    /\ UNCHANGED <<graph, rows, vectors, blobs, otherThanGraph>>

\* The chunks are in the graph, but for a chunk whose vector outlived its
\* Chunk node.
SimilarityInit ==
    /\ \E cs \in {ResultIds, ResultIds \ {"c3"}} :
          graph = [EmptyGraph EXCEPT !.chunks = cs]
    /\ rows = <<>>
    /\ vectors = {}
    /\ blobs = {}
    /\ op = [pc |-> "similar_idle", calls |-> 0]

InitSimilarity ==
    /\ SimilarityInit /\ IngestIdle /\ ProcIdle /\ ParseIdle /\ ExtractIdle
    /\ ServicesIdle

NextSimilarity ==
    \/ \E threshold \in Scores, limit \in 0..MaxLimit, available \in BOOLEAN :
          \E results \in SearchResults(limit) :
             SimilarityCall("c1", threshold, limit, available, results)
    \/ \E raises \in BOOLEAN : SimilarityStep(raises)
    \/ SimilarityReturn

SpecSimilarity == InitSimilarity /\ [][NextSimilarity]_vars

\* C18: no self-similarity and threshold respect. No SIMILAR_TO edge goes
\* from a chunk to itself; every edge a call writes goes from its chunk_id
\* to another id and carries a score of one of its results that is not
\* below the threshold; and when the call has returned, every result with
\* another id and a score of at least the threshold (exactly the threshold
\* included) whose Chunk nodes are in the graph has its edge.
C18_NoSelfAndThreshold ==
    /\ [](\A e \in BagToSet(graph.similar) : e.from # e.to)
    /\ [][\A e \in BagToSet(graph'.similar) :
             (~BagIn(e, graph.similar)
              \/ CopiesIn(e, graph'.similar) > CopiesIn(e, graph.similar)) =>
                /\ e.from = op.args.chunk_id
                /\ e.to # op.args.chunk_id
                /\ e.score >= op.args.threshold
                /\ \E k \in 1..Len(op.args.results) :
                      op.args.results[k] = [id |-> e.to, score |-> e.score]]_vars
    /\ []((op.pc = "similar_returned" /\ op.searched) =>
             \A k \in 1..Len(op.args.results) :
                LET res == op.args.results[k]
                IN  (/\ res.id # op.args.chunk_id
                     /\ res.score >= op.args.threshold
                     /\ {op.args.chunk_id, res.id} \subseteq graph.chunks) =>
                       SimilarBetween(graph.similar, op.args.chunk_id, res.id)
                          # {})

\* C18 witness: a call returned whose results held the chunk itself and
\* another chunk scoring exactly the threshold; the only edge is the one
\* to the other chunk.
C18_Witness ==
    /\ op.pc = "similar_returned"
    /\ op.calls = 1
    /\ \E j, k \in 1..Len(op.args.results) :
          /\ op.args.results[j].id = op.args.chunk_id
          /\ op.args.results[k].id # op.args.chunk_id
          /\ op.args.results[k].score = op.args.threshold
          /\ BagToSet(graph.similar) =
                {[from |-> op.args.chunk_id, to |-> op.args.results[k].id,
                  score |-> op.args.threshold]}

\* C19: similarity-edge idempotence. There is never more than one
\* SIMILAR_TO edge per ordered pair of chunks, however often the call is
\* run and whatever the results; and a call that repeats, with the same
\* results, a call that returned leaves the graph as it found it.
C19_SimilarityIdempotent ==
    /\ \A e \in BagToSet(graph.similar) :
          /\ CopiesIn(e, graph.similar) = 1
          /\ SimilarBetween(graph.similar, e.from, e.to) = {e}
    /\ (op.pc = "similar_returned" /\ op.repeat) => graph = op.before

\* C19 witness: the call was run a second time for a pair that already
\* had its edge, with a changed score, and the pair still has one edge.
C19_Witness ==
    /\ op.pc = "similar_returned"
    /\ op.calls = 2
    /\ \E k \in 1..Len(op.args.results) :
          LET res == op.args.results[k]
          IN  /\ ~Skipped(res, op.args.chunk_id, op.args.threshold)
              /\ \E e \in BagToSet(op.before.similar) :
                    e.from = op.args.chunk_id /\ e.to = res.id
                    /\ e.score # res.score
              /\ Cardinality(SimilarBetween(graph.similar, op.args.chunk_id,
                                            res.id)) = 1

(***************************************************************************)
(* GraphEnricher.compute_co_occurrence.                                    *)
(***************************************************************************)
MaxCoOccurrenceCalls == 2
MaxMinWeight == 3

\* Entity names of the co-occurrence scenarios: three, so that pairs with
\* different numbers of shared chunks exist side by side.
CoNames == Names \cup {"Driver"}

\* Orders in which the entity nodes may have been given their element ids.
ElementOrders ==
    {o \in [1..Cardinality(CoNames) -> CoNames] :
        \A i, j \in DOMAIN o : o[i] = o[j] => i = j}

\* elementId of an entity node under the order o (tenant first).
ElementId(o, e) ==
    (IF e.tenant_id = "t1" THEN 0 ELSE Cardinality(CoNames))
      + (CHOOSE i \in DOMAIN o : o[i] = e.name)

RECURSIVE SumOver(_, _)
\* Sum of f[x] over the elements x of S.
SumOver(f, S) ==
    IF S = {} THEN 0
    ELSE LET x == CHOOSE y \in S : TRUE IN f[x] + SumOver(f, S \ {x})

\* count(c) of line 97: the rows (e1)<-[:MENTIONS]-(c)-[:MENTIONS]->(e2)
\* matched for the pair.
SharedChunks(g, e1, e2) ==
    SumOver([c \in g.chunks |->
                CopiesIn(MentionsEdge(c, e1), g.mentions)
                  * CopiesIn(MentionsEdge(c, e2), g.mentions)],
            g.chunks)

\* CO_OCCURS edges between a and b, in either direction.
CoOccursBetween(edges, a, b) ==
    {r \in BagToSet(edges) :
        \/ r.source = a /\ r.target = b
        \/ r.source = b /\ r.target = a}

\* A filter that wants more shared chunks than min_weight.
Qualifies_above(weight, min_weight) == weight > min_weight

\* Line 98: WHERE weight >= $min_weight.
Qualifies(weight, min_weight) == weight >= min_weight

\* Lines 95-98: the ordered pairs of entities of the tenant the statement
\* goes on with, each once by the order of their element ids.
QualifyingPairs(g, o, t, min_weight) ==
    {p \in BagToSet(g.entities) \X BagToSet(g.entities) :
        /\ p[1].tenant_id = t /\ p[2].tenant_id = t
        /\ ElementId(o, p[1]) < ElementId(o, p[2])
        /\ SharedChunks(g, p[1], p[2]) > 0
        /\ Qualifies(SharedChunks(g, p[1], p[2]), min_weight)}

\* Lines 99-100: MERGE (e1)-[r:CO_OCCURS]-(e2) matches an edge in either
\* direction and creates one when there is none; SET r.weight = weight.
MergeCoOccurs(g, pairs) ==
    LET kept == {r \in BagToSet(g.co_occurs) :
                    <<r.source, r.target>> \notin pairs
                    /\ <<r.target, r.source>> \notin pairs}
        updated == BagToSet(g.co_occurs) \ kept
        created == {p \in pairs : CoOccursBetween(g.co_occurs, p[1], p[2]) = {}}
    IN  KeepBag(g.co_occurs, kept)
          (+) [x \in {[r EXCEPT !.weight =
                          SharedChunks(g, r.source, r.target)] : r \in updated}
                 |-> SumOver([r \in updated |-> g.co_occurs[r]],
                        {r \in updated :
                            [r EXCEPT !.weight =
                                SharedChunks(g, r.source, r.target)] = x})]
          (+) SetToBag({[source |-> p[1], target |-> p[2],
                         weight |-> SharedChunks(g, p[1], p[2])] : p \in created})

\* Lines 94-108: the statement runs as one write; an exception is logged
\* and the call returns all the same, having written nothing.
compute_co_occurrence(tenant_id, min_weight, raises) ==
    /\ op.pc \in {"co_idle", "co_returned"}
    /\ op.calls < MaxCoOccurrenceCalls
    /\ graph' = IF raises THEN graph
                ELSE [graph EXCEPT !.co_occurs =
                        MergeCoOccurs(graph,
                           QualifyingPairs(graph, op.order, tenant_id,
                                           min_weight))]
    /\ op' = [pc |-> "co_returned",
              args |-> [tenant_id |-> tenant_id, min_weight |-> min_weight],
              wrote |-> ~raises, before |-> graph, order |-> op.order,
              calls |-> op.calls + 1]
    /\ UNCHANGED <<rows, vectors, blobs, otherThanGraph>>

\* What the chunks mention: the chunks of tenant t1 vary over the three
\* names, the chunk of tenant t2 mentions all of them or one.
CoMentionScenarios ==
    {[c \in ChunkIds |->
         CASE c = "c1" -> s1 [] c = "c2" -> s2 [] c = "c3" -> s3 [] OTHER -> s4] :
       s1 \in SUBSET CoNames, s2 \in SUBSET CoNames, s3 \in SUBSET CoNames,
       s4 \in {CoNames, {"Neo4j"}}}

\* The entities and provenance edges the writer leaves for a scenario.
MentionGraph(mentioned) ==
    LET edges == {m \in {MentionsEdge(c, Entity(DocTenant[ChunkDocument[c]], n)) :
                            c \in ChunkIds, n \in CoNames} :
                     m.entity.name \in mentioned[m.chunk]}
    IN  [EmptyGraph EXCEPT
            !.documents = {DocumentNode(DocTenant[d], d) : d \in DocIds},
            !.chunks = ChunkIds,
            !.has_chunk = {<<DocumentNode(DocTenant[ChunkDocument[c]],
                                          ChunkDocument[c]), c>> : c \in ChunkIds},
            !.entities = SetToBag({m.entity : m \in edges}),
            !.mentions = SetToBag(edges)]

\* A written graph with no CO_OCCURS edge yet.
CoOccurrenceInit ==
    /\ \E mentioned \in CoMentionScenarios : graph = MentionGraph(mentioned)
    /\ rows = <<>>
    /\ vectors = {}
    /\ blobs = {}
    /\ \E o \in ElementOrders : op = [pc |-> "co_idle", calls |-> 0, order |-> o]

InitCoOccurrence ==
    /\ CoOccurrenceInit /\ IngestIdle /\ ProcIdle /\ ParseIdle /\ ExtractIdle
    /\ ServicesIdle

NextCoOccurrence ==
    \E tenant_id \in Tenants, min_weight \in 1..MaxMinWeight, raises \in BOOLEAN :
       compute_co_occurrence(tenant_id, min_weight, raises)

SpecCoOccurrence == InitCoOccurrence /\ [][NextCoOccurrence]_vars

\* Number of CO_OCCURS edges between a and b, in either direction.
CoOccursCount(g, a, b) ==
    SumOver([r \in CoOccursBetween(g.co_occurs, a, b) |-> g.co_occurs[r]],
            CoOccursBetween(g.co_occurs, a, b))

\* Chunks that mention both a and b.
SharedMentioning(g, a, b) ==
    {c \in g.chunks : /\ BagIn(MentionsEdge(c, a), g.mentions)
                      /\ BagIn(MentionsEdge(c, b), g.mentions)}

\* C20: co-occurrence edges. After a call that started from a graph with
\* no CO_OCCURS edge and whose write succeeded, every pair of distinct
\* entities of the tenant sharing n chunks has exactly one CO_OCCURS edge,
\* of weight n, when n >= min_weight, and none when n < min_weight; and at
\* all times, re-runs included, no pair has more than one CO_OCCURS edge
\* counting both directions.
C20_CoOccurrenceEdges ==
    /\ (op.pc = "co_returned" /\ op.wrote /\ op.before.co_occurs = EmptyBag) =>
          \A a, b \in BagToSet(graph.entities) :
             (a # b /\ a.tenant_id = op.args.tenant_id
                    /\ b.tenant_id = op.args.tenant_id) =>
                LET n == Cardinality(SharedMentioning(graph, a, b))
                IN  IF n >= op.args.min_weight
                    THEN /\ CoOccursCount(graph, a, b) = 1
                         /\ \A r \in CoOccursBetween(graph.co_occurs, a, b) :
                               r.weight = n
                    ELSE CoOccursCount(graph, a, b) = 0
    /\ \A a, b \in BagToSet(graph.entities) : CoOccursCount(graph, a, b) <= 1

\* C20 witness: compute_co_occurrence was run twice with min_weight = 2
\* for a tenant in which one pair shares exactly 1 chunk and another
\* exactly 2: the first pair has no edge, the second one edge of weight 2.
C20_Witness ==
    /\ op.pc = "co_returned" /\ op.wrote /\ op.calls = 2
    /\ op.args.min_weight = 2
    /\ op.before.co_occurs # EmptyBag
    /\ \E a, b, c, d \in BagToSet(graph.entities) :
          /\ a.tenant_id = op.args.tenant_id /\ b.tenant_id = op.args.tenant_id
          /\ c.tenant_id = op.args.tenant_id /\ d.tenant_id = op.args.tenant_id
          /\ a # b /\ c # d
          /\ Cardinality(SharedMentioning(graph, a, b)) = 1
          /\ CoOccursCount(graph, a, b) = 0
          /\ Cardinality(SharedMentioning(graph, c, d)) = 2
          /\ CoOccursCount(graph, c, d) = 1
          /\ \E r \in CoOccursBetween(graph.co_occurs, c, d) : r.weight = 2

(***************************************************************************)
(* CommunityLifecycleManager.                                              *)
(*                                                                         *)
(* A community holds the ids of its member entities and the is_stale flag. *)
(* The summarizer is the external collaborator that refreshes a community. *)
(***************************************************************************)
MaxLifecycleCalls == 3

EntityIds == {"ent_1", "ent_2", "ent_3"}
CommunityIds == {"comm_0_1", "comm_0_2", "comm_1_1", "misc"}

\* The communities that exist.
Existing(cs) == DOMAIN cs

\* A filter that asks for every member to be among the given entities.
Containing_all(cs, entity_ids) ==
    {k \in Existing(cs) : cs[k].members # {} /\ cs[k].members \subseteq entity_ids}

\* The communities containing any of the given entities.
Containing(cs, entity_ids) ==
    {k \in Existing(cs) : cs[k].members \cap entity_ids # {}}

\* The entities not assigned to any community.
OrphanEntities(cs) ==
    EntityIds \ UNION {cs[k].members : k \in Existing(cs)}

\* lifecycle.owed: the communities a mark_stale_by_entities call had to
\* flag and that the summarizer has not refreshed since.
Owed(cs, entity_ids) ==
    {k \in Existing(cs) : \E e \in entity_ids : e \in cs[k].members}

\* mark_stale_by_entities(entity_ids): one write statement; when it raises
\* nothing is written.
mark_stale_by_entities(entity_ids, raises) ==
    /\ lifecycle.calls < MaxLifecycleCalls
    /\ communities' =
          IF raises THEN communities
          ELSE [k \in Existing(communities) |->
                  IF k \in Containing(communities, entity_ids)
                  THEN [communities[k] EXCEPT !.is_stale = TRUE]
                  ELSE communities[k]]
    /\ lifecycle' =
          [pc |-> IF raises THEN "raised" ELSE "marked",
           calls |-> lifecycle.calls + 1,
           entity_ids |-> entity_ids,
           owed |-> IF raises THEN lifecycle.owed
                    ELSE lifecycle.owed \cup Owed(communities, entity_ids)]
    /\ UNCHANGED otherThanCommunity

\* cleanup_orphans(tenant_id): entities in no community are assigned to the
\* catch-all community, which is created when it does not exist.
cleanup_orphans(created_stale) ==
    /\ lifecycle.calls < MaxLifecycleCalls
    /\ LET orphans == OrphanEntities(communities)
           misc == IF "misc" \in Existing(communities)
                   THEN [communities["misc"] EXCEPT
                            !.members = @ \cup orphans]
                   ELSE [members |-> orphans, is_stale |-> created_stale]
       IN  communities' =
              IF orphans = {} THEN communities
              ELSE [k \in Existing(communities) \cup {"misc"} |->
                      IF k = "misc" THEN misc ELSE communities[k]]
    /\ lifecycle' = [lifecycle EXCEPT !.pc = "cleaned",
                                      !.calls = @ + 1]
    /\ UNCHANGED otherThanCommunity

\* The external summarizer refreshes community k.
summarize_community(k) ==
    /\ lifecycle.calls < MaxLifecycleCalls
    /\ k \in Existing(communities)
    /\ communities' = [communities EXCEPT ![k].is_stale = FALSE]
    /\ lifecycle' = [lifecycle EXCEPT !.pc = "summarized",
                                      !.calls = @ + 1,
                                      !.owed = @ \ {k}]
    /\ UNCHANGED otherThanCommunity

\* Every entity is in at most one community of level 0; the community of
\* level 1 holds the members of both; flags start either way.
CommunityScenarios ==
    {[k \in {"comm_0_1", "comm_0_2", "comm_1_1"} |->
        [members |-> CASE k = "comm_0_1" -> {e \in EntityIds : a[e] = 1}
                       [] k = "comm_0_2" -> {e \in EntityIds : a[e] = 2}
                       [] OTHER -> {e \in EntityIds : a[e] # 0},
         is_stale |-> f[k]]] :
       a \in [EntityIds -> 0..2],
       f \in [{"comm_0_1", "comm_0_2", "comm_1_1"} -> BOOLEAN]}

CommunityInit ==
    /\ communities \in CommunityScenarios
    /\ lifecycle = [pc |-> "idle", calls |-> 0, entity_ids |-> {}, owed |-> {}]

InitCommunity ==
    /\ CommunityInit /\ TicketIdle
    /\ IngestIdle /\ ProcIdle /\ ParseIdle /\ ExtractIdle /\ GraphIdle

NextCommunity ==
    \/ \E entity_ids \in SUBSET EntityIds, raises \in BOOLEAN :
          mark_stale_by_entities(entity_ids, raises)
    \/ \E created_stale \in BOOLEAN : cleanup_orphans(created_stale)
    \/ \E k \in CommunityIds : summarize_community(k)

SpecCommunity == InitCommunity /\ [][NextCommunity]_vars

\* C21 Staleness marking: after mark_stale_by_entities(entity_ids) has
\* returned, every community containing an entity of entity_ids is flagged
\* stale, and a community flagged by such a call stays flagged until the
\* summarizer refreshes it.
C21_StalenessMarking ==
    /\ lifecycle.pc = "marked" =>
          \A k \in Existing(communities) :
             (\E e \in lifecycle.entity_ids : e \in communities[k].members)
                => communities[k].is_stale
    /\ \A k \in lifecycle.owed :
          k \in Existing(communities) /\ communities[k].is_stale

\* A community that was not stale has been flagged by a call, another
\* call (cleanup_orphans) has run since, and the flag is still set.
C21_Witness ==
    /\ lifecycle.pc = "cleaned"
    /\ "misc" \in Existing(communities)
    /\ \E k \in lifecycle.owed :
          /\ communities[k].is_stale
          /\ communities[k].members # EntityIds
    /\ \E k \in Existing(communities) : ~communities[k].is_stale

(***************************************************************************)
(* TicketService.                                                          *)
(***************************************************************************)
MaxTickets == 2
MaxRedeems == 2

TICKET_TTL_SECONDS == 30

\* Values of secrets.token_urlsafe(32), raw API keys, and the seconds that
\* may pass between two steps.
Tickets == {"ticket_1", "ticket_2", "ticket_3"}
ApiKeys == {"amber_key_1", ""}
ElapsedSeconds == {10, 30}

None == "None"

\* Python truth value of a string read from Redis (None when absent).
Truthy(payload) == payload # None /\ payload # ""

\* SETEX key seconds value.
setex(store, key, seconds, value) ==
    [k \in DOMAIN store \cup {key} |->
        IF k = key THEN [value |-> value, ttl |-> seconds] ELSE store[k]]

\* GET key.
get(store, key) == IF key \in DOMAIN store THEN store[key].value ELSE None

\* Redis drops a key once its time to live has passed.
Expire(store, seconds) ==
    [k \in {x \in DOMAIN store : store[x].ttl > seconds} |->
        [store[k] EXCEPT !.ttl = @ - seconds]]

\* Lines 55-64: a fresh random ticket is stored with the API key for 30 s.
create_ticket(api_key_value) ==
    /\ Cardinality(issued) < MaxTickets
    /\ \E ticket \in Tickets \ issued :
          /\ redis' = setex(redis, ticket, TICKET_TTL_SECONDS, api_key_value)
          /\ issued' = issued \cup {ticket}
    /\ UNCHANGED <<redeems, otherThanTicket>>

\* Lines 73-74: redeem_ticket(ticket) is entered.
RedeemCall(ticket) ==
    /\ Len(redeems) < MaxRedeems
    /\ redeems' = Append(redeems, [pc |-> "called", ticket |-> ticket,
                                   payload |-> None, result |-> None])
    /\ UNCHANGED <<redis, issued, otherThanTicket>>

\* Line 77: payload = await client.get(key); the key is left in place.
RedeemGet(i) ==
    /\ redeems[i].pc = "called"
    /\ redeems' = [redeems EXCEPT
                      ![i].pc = "got",
                      ![i].payload = get(redis, redeems[i].ticket)]
    /\ UNCHANGED <<redis, issued, otherThanTicket>>

\* Lines 79-84: the payload is returned when it is truthy, None otherwise.
RedeemReturn(i) ==
    /\ redeems[i].pc = "got"
    /\ redeems' = [redeems EXCEPT
                      ![i].pc = "returned",
                      ![i].result = IF Truthy(redeems[i].payload)
                                    THEN redeems[i].payload ELSE None]
    /\ UNCHANGED <<redis, issued, otherThanTicket>>

\* Time passes.
Elapse(seconds) ==
    /\ redis # <<>>
    /\ redis' = Expire(redis, seconds)
    /\ UNCHANGED <<issued, redeems, otherThanTicket>>

TicketInit == TicketIdle

InitTicket ==
    /\ TicketInit /\ CommunityIdle
    /\ IngestIdle /\ ProcIdle /\ ParseIdle /\ ExtractIdle /\ GraphIdle

NextTicket ==
    \/ \E api_key_value \in ApiKeys : create_ticket(api_key_value)
    \/ \E ticket \in Tickets : RedeemCall(ticket)
    \/ \E i \in DOMAIN redeems : RedeemGet(i)
    \/ \E i \in DOMAIN redeems : RedeemReturn(i)
    \/ \E seconds \in ElapsedSeconds : Elapse(seconds)

SpecTicket == InitTicket /\ [][NextTicket]_vars

\* C22 One-time tickets: a ticket is redeemed at most once: no two
\* redeem_ticket calls for the same ticket have both returned the stored
\* API key.
C22_OneTimeTickets ==
    \A i, j \in DOMAIN redeems :
       (/\ i # j
        /\ redeems[i].ticket = redeems[j].ticket
        /\ redeems[i].pc = "returned"
        /\ redeems[j].pc = "returned"
        /\ redeems[i].result # None)
       => redeems[j].result = None

(***************************************************************************)
(* Ingestion under fair scheduling: one upload, the processing jobs of its *)
(* document, a dispatch that may fail, and a worker that may die.          *)
(***************************************************************************)
\* execute, line 160: dispatch raises after the commit of line 153; the
\* exception leaves execute, the row stays as committed, no job is queued.
DispatchFails(r) ==
    /\ uploads[r].pc = "refresh"
    /\ ~IsDuplicate(documents[uploads[r].document_id].status)
    /\ uploads' = [uploads EXCEPT ![r] = [@ EXCEPT !.pc = "dispatch_failed"]]
    /\ UNCHANGED <<documents, storage, jobs, sweeps, otherThanIngest>>

\* The worker running job dies: with task_acks_late and
\* task_reject_on_worker_lost the job returns to the queue, and the worker
\* that starts in its place runs on_worker_ready.
WorkerCrash(job, stale, toFail) ==
    /\ job.state = "running"
    /\ sweeps < MaxSweeps
    /\ sweeps' = sweeps + 1
    /\ stale \subseteq StuckCandidates
    /\ toFail \subseteq stale
    /\ LET redelivered == Update(jobs, job, [job EXCEPT !.state = "queued",
                                                        !.stage = "none"])
       IN  /\ Cardinality(stale \ toFail) <= FreeSlots(redelivered)
           /\ jobs' = Requeue(redelivered, stale \ toFail)
    /\ documents' = RecoveredDocuments(stale, toFail)
    /\ UNCHANGED <<storage, uploads, otherThanIngest>>

UploadReturns == \E r \in 1..MaxUploads : UploadFinish(r) \/ DispatchFails(r)

StageEnds ==
    \E job \in BagToSet(jobs) :
       \/ StageSucceed(job)
       \/ StateConflict(job)
       \/ StageFailFatal(job)
       \/ StageFailTransient(job)

WorkerStarts ==
    \E stale \in SUBSET StuckCandidates, raises \in BOOLEAN :
       \E toFail \in SUBSET stale : on_worker_ready(stale, toFail, raises)

NextLive ==
    \/ \E t \in Tenants, b \in ByteStrings : UploadStart(1, t, b)
    \/ RegisterLookup(1)
    \/ RegisterPersist(1)
    \/ UploadFinish(1)
    \/ DispatchFails(1)
    \/ \E job \in BagToSet(jobs) : JobStart(job)
    \/ \E job \in BagToSet(jobs) : StageSucceed(job)
    \/ \E job \in BagToSet(jobs) : StateConflict(job)
    \/ \E job \in BagToSet(jobs) : StageFailFatal(job)
    \/ \E job \in BagToSet(jobs) : StageFailTransient(job)
    \/ \E stale \in SUBSET StuckCandidates, raises \in BOOLEAN :
          \E toFail \in SUBSET stale : on_worker_ready(stale, toFail, raises)
    \/ \E job \in BagToSet(jobs), stale \in SUBSET StuckCandidates :
          \E toFail \in SUBSET stale : WorkerCrash(job, stale, toFail)

\* Every call that has begun returns or fails, workers take queued jobs and
\* finish the stage they run, and a worker starts.
Fairness ==
    /\ WF_vars(RegisterLookup(1))
    /\ WF_vars(RegisterPersist(1))
    /\ WF_vars(UploadReturns)
    /\ WF_vars(\E job \in BagToSet(jobs) : JobStart(job))
    /\ WF_vars(StageEnds)
    /\ WF_vars(WorkerStarts)

SpecLive == Init /\ [][NextLive]_vars /\ Fairness

\* C23 Eventual termination of ingestion: every document persisted in
\* state INGESTED eventually reaches READY or FAILED.
C23_EventualTermination ==
    \A d \in 1..MaxUploads :
       (d \in DOMAIN documents)
          ~> (d \in DOMAIN documents /\ documents[d].status \in Terminal)

\* The jobs of document d that a worker is running.
RunningJobs(d) ==
    {j \in BagToSet(jobs) : j.document_id = d /\ j.state = "running"}

\* How many jobs of document d are being run at the same time.
ActiveJobs(d) ==
    LET S == RunningJobs(d)
    IN  SumOver([j \in S |-> CopiesIn(j, jobs)], S)

\* C24 State-conflict detection: a running job that finds the row in
\* another state than the one it last saw stops without writing the row,
\* and while two jobs of one document are running the document's status
\* only moves to the next state of the chain or to FAILED, never backward
\* and never out of a terminal state.
C24_StateConflictDetection ==
    [][/\ \A j \in BagToSet(jobs) :
             (/\ j.state = "running"
              /\ ~InExpectedState(documents, j)
              /\ CopiesIn(j, jobs') < CopiesIn(j, jobs)
              /\ sweeps' = sweeps)
             => (documents' = documents /\ jobs' = Ack(jobs, j))
       /\ \A d \in DOMAIN documents :
             (/\ ActiveJobs(d) >= 2
              /\ documents'[d].status # documents[d].status)
             => /\ documents[d].status \notin Terminal
                /\ documents'[d].status \in
                      {NextStatus(documents[d].status), "FAILED"}]_vars

\* Two jobs of one document are running, one of them on a state the row
\* has already left.
C24_Witness ==
    \E d \in DOMAIN documents :
       /\ ActiveJobs(d) >= 2
       /\ \E j \in RunningJobs(d) : ~InExpectedState(documents, j)
       /\ \E j \in RunningJobs(d) : InExpectedState(documents, j)

\* C25 Gleaning pass bound and early stop: a returned extract call has made
\* exactly one model call when gleaning is disabled and at most
\* 1 + max_gleaning_steps otherwise; no pass follows a gleaning pass that
\* raised or returned no entity; and when the base pass raised no gleaning
\* pass is run and the result is empty.
C25_GleaningBound ==
    /\ ex.calls = Len(ex.outcomes)
    /\ ex.calls <= 1 + ex.max_gleaning_steps
    /\ ex.pc = "done" => ex.calls >= 1
    /\ ~ex.use_gleaning => ex.calls <= 1
    /\ \A k \in 2..Len(ex.outcomes) :
          ex.outcomes[k] \in {"raised", "empty"}
             => k = Len(ex.outcomes) /\ ex.pc = "done"
    /\ (ex.outcomes # <<>> /\ ex.outcomes[1] = "raised")
          => /\ Len(ex.outcomes) = 1
             /\ ex.pc = "done"
             /\ ex.result = EmptyResult

\* A call with gleaning enabled has returned after its second gleaning
\* pass found nothing, with a gleaning step left unused.
C25_Witness ==
    /\ ex.pc = "done"
    /\ ex.use_gleaning
    /\ ex.max_gleaning_steps = 3
    /\ ex.outcomes = <<"entities", "entities", "empty">>

ForeignCall ==
    /\ op.pc \notin {"delete_idle", "unused"}
    /\ ~op.args.is_super_admin
    /\ op.args.tenant_id # DocTenant[op.args.document_id]

\* C27 Tenant isolation of deletion: a delete_document call without
\* super-admin rights by a tenant that does not own the document leaves
\* the relational rows, the graph, the vectors and the blobs as they were.
C27_TenantIsolation ==
    ForeignCall => <<graph, rows, vectors, blobs>> = op.before

\* Such a call has returned, having run every cleanup step without an
\* exception, while the owner's row, Document node, vectors and blob exist.
C27_Witness ==
    /\ ForeignCall
    /\ op.pc = "delete_returned"
    /\ op.raised = {}
    /\ op.attempted = <<"graph", "vector", "storage">>
    /\ LET d == op.args.document_id
       IN  /\ d \in DOMAIN rows
           /\ DocumentNode(DocTenant[d], d) \in graph.documents
           /\ \E v \in vectors : v.document_id = d
           /\ BlobPath(DocTenant[d], d) \in blobs

\* SIMILAR_TO edges the call in progress (or returned last) has created.
CreatedBy(g, before) ==
    BagCardinality(g.similar) - BagCardinality(before.similar)

\* C28 Similarity edge limit: one create_similarity_edges call creates at
\* most limit SIMILAR_TO edges.
C28_SimilarityEdgeLimit ==
    op.pc \in {"similar_loop", "similar_returned", "similar_raised"}
       => CreatedBy(graph, op.before) <= op.args.limit

(***************************************************************************)
(* Co-occurrence edges over the life of the graph: documents are deleted   *)
(* between runs of compute_co_occurrence.                                  *)
(***************************************************************************)
\* DeleteDocumentUseCase.execute, lines 246-314, called for a document
\* whose row exists by a caller who may see it, with every step
\* succeeding, between two runs of the enricher.
DeleteDocument(d) ==
    /\ op.pc \in {"co_idle", "co_returned"}
    /\ d \in DOMAIN rows
    /\ LET t == ResolveTenant(d, rows[d].tenant_id, TRUE)
       IN  /\ graph' = DeleteFromGraph(graph, d, t)
           /\ vectors' = DeleteVectors(vectors, d, t)
    /\ blobs' = blobs \ {rows[d].storage_path}
    /\ rows' = [x \in DOMAIN rows \ {d} |-> rows[x]]
    /\ op' = [op EXCEPT !.pc = "co_idle"]
    /\ UNCHANGED otherThanGraph

\* Every document registered, chunked, embedded and written to the graph;
\* no CO_OCCURS edge yet.
GraphLifeInit ==
    /\ \E mentioned \in MentionScenarios : graph = WrittenGraph(mentioned)
    /\ rows = [d \in DocIds |->
                 [tenant_id |-> DocTenant[d],
                  storage_path |-> BlobPath(DocTenant[d], d)]]
    /\ vectors = {VectorTag(DocTenant[ChunkDocument[c]], ChunkDocument[c], c) :
                     c \in ChunkIds}
    /\ blobs = {BlobPath(DocTenant[d], d) : d \in DocIds}
    /\ \E o \in ElementOrders : op = [pc |-> "co_idle", calls |-> 0, order |-> o]

InitGraphLife ==
    /\ GraphLifeInit /\ IngestIdle /\ ProcIdle /\ ParseIdle /\ ExtractIdle
    /\ ServicesIdle

NextGraphLife ==
    \/ \E tenant_id \in Tenants, min_weight \in 1..MaxMinWeight,
          raises \in BOOLEAN :
          compute_co_occurrence(tenant_id, min_weight, raises)
    \/ \E d \in DocIds : DeleteDocument(d)

SpecGraphLife == InitGraphLife /\ [][NextGraphLife]_vars

\* C29 Co-occurrence weight stays current: right after a
\* compute_co_occurrence(tenant_id, min_weight) whose write succeeded,
\* every CO_OCCURS edge between two entities of that tenant has the weight
\* of the number of chunks now mentioning both, and that number is not
\* below min_weight.
C29_CoOccurrenceCurrent ==
    (op.pc = "co_returned" /\ op.wrote) =>
       \A r \in BagToSet(graph.co_occurs) :
          (/\ r.source.tenant_id = op.args.tenant_id
           /\ r.target.tenant_id = op.args.tenant_id) =>
             LET n == Cardinality(SharedMentioning(graph, r.source, r.target))
             IN  r.weight = n /\ n >= op.args.min_weight

(***************************************************************************)
(* Deletion of a document while process_chunks is still working on its     *)
(* chunks.                                                                 *)
(***************************************************************************)
\* The document being processed and the chunk each coroutine works on.
JobDocument == "d1"
JobChunks == <<"c1", "c2">>

RECURSIVE WriteEntities(_, _, _, _)
\* The entities named in s are merged, each with its provenance edge.
WriteEntities(g, c, t, s) ==
    IF s = <<>> THEN g
    ELSE WriteEntities(
            [g EXCEPT !.entities = MergeNode(@, Entity(t, Head(s))),
                      !.mentions = ProvenanceEdges(@, c, Entity(t, Head(s)))],
            c, t, Tail(s))

\* write_extraction_result(document_id, chunk_id, tenant_id, result) from
\* call to return: the Document and Chunk nodes are merged and linked,
\* then the entities and their provenance edges are written.
WriteExtraction(g, d, c, t, names) ==
    WriteEntities([g EXCEPT !.documents = @ \cup {DocumentNode(t, d)},
                            !.chunks = @ \cup {c},
                            !.has_chunk = @ \cup {<<DocumentNode(t, d), c>>}],
                  c, t, names)

\* Lines 46-53 of _process_one: the write of coroutine i returns, having
\* written the extraction result of its chunk to the graph.
UnitWrites(i) ==
    /\ unit[i] = "writing"
    /\ unit' = [unit EXCEPT ![i] = "done_written"]
    /\ sem' = sem + 1
    /\ graph' = WriteExtraction(graph, JobDocument, JobChunks[i],
                                DocTenant[JobDocument], <<"Neo4j", "Python">>)
    /\ UNCHANGED <<chunks, proc, unit_calls, rows, vectors, blobs, op,
                   ingestVars, parseVars, extractVars, communityVars,
                   ticketVars>>

\* The processing job of JobDocument has reached the graph stage: its row,
\* blob and vectors exist, process_chunks has created its coroutines and
\* nothing of the document is in the graph yet.
RaceInit ==
    /\ graph = EmptyGraph
    /\ rows = [d \in DocIds |->
                 [tenant_id |-> DocTenant[d],
                  storage_path |-> BlobPath(DocTenant[d], d)]]
    /\ vectors = {VectorTag(DocTenant[ChunkDocument[c]], ChunkDocument[c], c) :
                     c \in ChunkIds}
    /\ blobs = {BlobPath(DocTenant[d], d) : d \in DocIds}
    /\ op = [pc |-> "delete_idle", calls |-> 0]
    /\ chunks \in [DOMAIN JobChunks -> ContentLengths]
    /\ unit = [i \in DOMAIN JobChunks |-> "pending"]
    /\ sem = SemaphorePermits
    /\ proc = "gathering"
    /\ unit_calls = [i \in DOMAIN JobChunks |-> NoCalls]

InitRace ==
    /\ RaceInit /\ IngestIdle /\ ParseIdle /\ ExtractIdle /\ ServicesIdle

NextRace ==
    \/ \E i \in DOMAIN unit : UnitEnter(i)
    \/ \E i \in DOMAIN unit, hasEntities \in BOOLEAN :
          ExtractReturns(i, hasEntities)
    \/ \E i \in DOMAIN unit : ExtractRaises(i)
    \/ \E i \in DOMAIN unit : UnitWrites(i)
    \/ \E i \in DOMAIN unit : WriteRaises(i)
    \/ GatherReturns
    \/ \E t \in Tenants, is_super_admin \in BOOLEAN :
          DeleteCall(JobDocument, t, is_super_admin)
    \/ \E raises \in BOOLEAN : GraphCleanup(raises)
    \/ \E raises, applied \in BOOLEAN : VectorCleanup(raises, applied)
    \/ \E raises \in BOOLEAN : StorageCleanup(raises)
    \/ \E raises \in BOOLEAN : RelationalDelete(raises)

SpecRace == InitRace /\ [][NextRace]_vars

\* C30 Deletion racing with processing: once the first delete_document of
\* the document has returned, having found the row and with no step
\* raising, and process_chunks has returned, the graph holds no Chunk node
\* and no provenance edge of the document and the vector index no vector
\* tagged with it.
C30_NoResidueAfterRace ==
    (/\ op.pc = "delete_returned"
     /\ op.calls = 1
     /\ op.document
     /\ op.raised = {}
     /\ proc = "returned")
    => /\ \A c \in graph.chunks : ChunkDocument[c] # JobDocument
       /\ \A m \in BagToSet(graph.mentions) :
             ChunkDocument[m.chunk] # JobDocument
       /\ \A v \in vectors : v.document_id # JobDocument
====
